---- MODULE Spec2Model ----
(***************************************************************************)
(* Model of the ECS deployment plugin: the Router admission layer          *)
(* (internal/plugin/router.go), its worker goroutine, the hook registry    *)
(* (internal/executor/hooks.go) and the gRPC Deploy handler                *)
(* (internal/grpc/server.go).                                              *)
(*                                                                         *)
(* Granularity: every access to one of the Router's sync.Map fields is one *)
(* atomic step.  Purely local computation (request validation, running the *)
(* hook functions, classifying the strategy error) is merged into the      *)
(* neighbouring shared access of the same goroutine.  An operation that    *)
(* returns to its caller leaves its reply in the variable reply; the next  *)
(* step hands it over (Return) before anything else moves.                 *)
(***************************************************************************)
EXTENDS Integers, Sequences, FiniteSets, TLC

(***************************************************************************)
(* Bounds of the model.                                                    *)
(***************************************************************************)
\* number of deployments that can be admitted and not yet fully exited
MaxInFlight == 2
\* number of hooks that can be registered on top of the default ones
MaxExtraHooks == 1

Slots == 1..MaxInFlight

(***************************************************************************)
(* Inputs: request fields are drawn from these sets ("" is the empty       *)
(* string a client may send in any field).                                 *)
(***************************************************************************)
DeploymentIDs == {"", "d1", "d2"}
ClusterARNs == {"", "c"}
ServiceNames == {"", "s1", "s2"}

\* a config map without entries
NoConfig == [k \in {} |-> ""]

\* type DeploymentRequest; Config is not read by the Router, which passes it
\* on to the strategy
DeploymentRequest(id, cluster, service, taskDef, strat) ==
  [DeploymentID |-> id, ClusterARN |-> cluster, ServiceName |-> service,
   TaskDefinition |-> taskDef, Strategy |-> strat, Config |-> NoConfig]

\* the request rq with the config map cfg
WithConfig(rq, cfg) == [rq EXCEPT !.Config = cfg]

\* the zero value of DeploymentRequest, held by a slot that runs nothing
NoRequest == DeploymentRequest("", "", "", "", "")

\* well-formed requests: two ids on one service, one id on two services
ValidRequests ==
  {DeploymentRequest("d1", "c", "s1", "td", "quicksync"),
   DeploymentRequest("d2", "c", "s1", "td", "quicksync"),
   DeploymentRequest("d1", "c", "s2", "td", "quicksync")}

\* malformed requests: each field empty in turn, an unregistered strategy,
\* every field empty
InvalidRequests ==
  {DeploymentRequest("", "c", "s1", "td", "quicksync"),
   DeploymentRequest("d1", "", "s1", "td", "quicksync"),
   DeploymentRequest("d1", "c", "", "td", "quicksync"),
   DeploymentRequest("d1", "c", "s1", "", "quicksync"),
   DeploymentRequest("d1", "c", "s1", "td", ""),
   DeploymentRequest("d1", "c", "s1", "td", "nosuch"),
   NoRequest}

\* the requests of the admission specification: every malformed one, and two
\* well-formed ones that compete for one service
AdmissionRequests ==
  InvalidRequests \cup {rq \in ValidRequests : rq.ServiceName = "s1"}

\* the requests of the hook specification: one id on two services
HookRequests == {rq \in ValidRequests : rq.DeploymentID = "d1"}

\* NewRouter: the keys of Router.strategies
strategies == {"quicksync", "canary", "bluegreen", "rolling"}

\* the error value context.Canceled, by its message
Canceled == "context canceled"
\* an error returned by a strategy that is not context.Canceled
StrategyError == "strategy failed"
\* the error returned by a registered hook function that fails
HookError == "hook error"

\* names of the hooks NewRouter registers
DefaultPreDeployHooks == <<"validation">>
DefaultPostDeployHooks == <<"health-check", "notification">>
\* a hook registered later through RegisterHook; its Fn may fail
ExtraHooks == {"custom"}

TerminalPhases == {"SUCCESS", "FAILED", "CANCELLED"}

VARIABLES
  statuses,        \* Router.statuses: deployment id -> DeploymentStatus
  serviceQueue,    \* Router.serviceQueue: service key -> deployment id
  cancelFuncs,     \* Router.cancelFuncs: deployment id -> cancel func (the slot whose context it cancels)
  preDeployHooks,  \* HookRegistry.preDeployHooks
  postDeployHooks, \* HookRegistry.postDeployHooks
  inProgress,      \* metrics.DeploymentsInProgress gauge
  pc,              \* per slot: position of the admitted request / its worker
  req,             \* per slot: the admitted DeploymentRequest
  ctxDone,         \* per slot: deployCtx is cancelled
  cancelCall,      \* CancelDeployment between its two map reads: the id, or ""
  reply,           \* the reply an operation is returning to its caller, or NoReply
  run,             \* per slot: the strategy run of the worker (position, facade calls issued)
  approvals,       \* ApprovalManager.requests: deployment id -> ApprovalRequest
  registry,        \* plugin.Registry: its map, its lock and the calls in progress
  retry,           \* a call of util.ExponentialBackoff in progress
  executor         \* the Executor outside the workers: the calls of the last
                   \* Router.Rollback, a WaitForServiceStable in progress

vars == <<statuses, serviceQueue, cancelFuncs, preDeployHooks, postDeployHooks,
          inProgress, pc, req, ctxDone, cancelCall, reply, run, approvals,
          registry, retry, executor>>

(***************************************************************************)
(* sync.Map                                                                *)
(***************************************************************************)
MapHas(m, k) == k \in DOMAIN m

\* a Store that stores nothing
MapStoreNothing(m, k, v) == m

MapStore(m, k, v) == [x \in DOMAIN m \cup {k} |-> IF x = k THEN v ELSE m[x]]

\* a Delete that removes nothing
MapDeleteNothing(m, k) == m

MapDelete(m, k) == [x \in DOMAIN m \ {k} |-> m[x]]

EmptyMap == [x \in {} |-> ""]

\* a LoadOrStore that never reports an existing entry (a plain Store)
LoadOrStoreLoadedNever(m, k) == FALSE

\* sync.Map.LoadOrStore: the "loaded" result
LoadOrStoreLoaded(m, k) == MapHas(m, k)

\* a LoadOrStore that replaces an existing entry (a plain Store)
LoadOrStoreMapOverwrite(m, k, v) == MapStore(m, k, v)

\* sync.Map.LoadOrStore: the map afterwards
LoadOrStoreMap(m, k, v) == IF MapHas(m, k) THEN m ELSE MapStore(m, k, v)

(***************************************************************************)
(* Request validation                                                      *)
(***************************************************************************)
\* DeploymentServer.validateDeployRequest: the error message, "" for nil
validateDeployRequest(rq) ==
  IF rq.DeploymentID = "" THEN "deployment_id is required"
  ELSE IF rq.ClusterARN = "" THEN "cluster_arn is required"
  ELSE IF rq.ServiceName = "" THEN "service_name is required"
  ELSE IF rq.TaskDefinition = "" THEN "task_definition is required"
  ELSE IF rq.Strategy = "" THEN "strategy is required"
  ELSE ""

\* a ValidateRequest that does not look the strategy up
ValidateRequestNoLookup(rq) == validateDeployRequest(rq)

\* Router.ValidateRequest: the error message, "" for nil
ValidateRequest(rq) ==
  IF rq.DeploymentID = "" THEN "deployment ID is required"
  ELSE IF rq.ClusterARN = "" THEN "cluster ARN is required"
  ELSE IF rq.ServiceName = "" THEN "service name is required"
  ELSE IF rq.TaskDefinition = "" THEN "task definition is required"
  ELSE IF rq.Strategy = "" THEN "strategy is required"
  ELSE IF rq.Strategy \notin strategies THEN "unknown strategy: " \o rq.Strategy
  ELSE ""

\* serviceKey := fmt.Sprintf("%s/%s", req.ClusterARN, req.ServiceName)
ServiceKey(rq) == rq.ClusterARN \o "/" \o rq.ServiceName

(***************************************************************************)
(* DeploymentStatus records.  Instants are abstracted to two values: the   *)
(* zero time.Time of a field that was never assigned, and a reading of     *)
(* time.Now().                                                             *)
(***************************************************************************)
ZeroTime == 0

Now == 1

DeploymentStatus(status, message, progress, start, end) ==
  [Status |-> status, Message |-> message, Progress |-> progress,
   StartTime |-> start, EndTime |-> end]

\* the record stored on admission
RunningStatus(start) ==
  DeploymentStatus("RUNNING", "deployment started", 0, start, ZeroTime)

\* a terminal record without the end time
TerminalStatusNoEnd(status, message, start, end) ==
  DeploymentStatus(status, message, 100, start, ZeroTime)

\* the records stored by the worker
TerminalStatus(status, message, start, end) ==
  DeploymentStatus(status, message, 100, start, end)

\* status := "FAILED"; if err == context.Canceled { status = "CANCELLED" }
ClassifyError(err) == IF err = Canceled THEN "CANCELLED" ELSE "FAILED"

(***************************************************************************)
(* Hooks                                                                   *)
(***************************************************************************)
\* Hook.Fn of the hook called name: the error message, "" for nil.
\* failing is the set of extra hooks whose function fails in this run.
HookFn(name, failing, id, cluster, service) ==
  IF name = "validation"
    THEN IF id = "" \/ cluster = "" \/ service = ""
           THEN "invalid deployment parameters" ELSE ""
  ELSE IF name \in {"health-check", "notification"} THEN ""
  ELSE IF name \in failing THEN HookError
  ELSE ""

RECURSIVE ExecuteHooks(_, _, _, _, _, _, _)
\* the loop of ExecutePreDeployHooks / ExecutePostDeployHooks from hook i on
ExecuteHooks(kind, hooks, i, failing, id, cluster, service) ==
  IF i > Len(hooks) THEN ""
  ELSE LET err == HookFn(hooks[i], failing, id, cluster, service) IN
       IF err # ""
         THEN kind \o " hook " \o hooks[i] \o " failed: " \o err
         ELSE ExecuteHooks(kind, hooks, i + 1, failing, id, cluster, service)

ExecutePreDeployHooks(failing, rq) ==
  ExecuteHooks("pre-deploy", preDeployHooks, 1, failing,
               rq.DeploymentID, rq.ClusterARN, rq.ServiceName)

ExecutePostDeployHooks(failing, rq) ==
  ExecuteHooks("post-deploy", postDeployHooks, 1, failing,
               rq.DeploymentID, rq.ClusterARN, rq.ServiceName)

(***************************************************************************)
(* Replies: what an operation returned to its caller, together with the    *)
(* arguments of the call it answers (Request).  Err is the Go error ("" for *)
(* nil); Status and Progress are filled by status queries.                 *)
(***************************************************************************)
Reply(op, rq, success, message, id, err) ==
  [op |-> op, Request |-> rq, Success |-> success, Message |-> message,
   DeploymentID |-> id, Err |-> err, Status |-> "", Progress |-> 0]

NoReply == Reply("none", NoRequest, FALSE, "", "", "")

\* the arguments of a call that names a deployment only by its id
ByID(id) == [NoRequest EXCEPT !.DeploymentID = id]

\* DeploymentServer.Deploy: the DeployResponse built from RouteDeployment's
\* (result, err); the handler's own error is always nil
DeployResponse(res) ==
  IF res.Err # ""
    THEN Reply("Deploy", res.Request, FALSE, "deployment failed: " \o res.Err, "", "")
    ELSE Reply("Deploy", res.Request, res.Success, res.Message, res.DeploymentID, "")

\* the reply a caller of RouteDeployment gets, directly or through the server
Respond(viaServer, res) == IF viaServer THEN DeployResponse(res) ELSE res

(***************************************************************************)
(* The strategy run of a worker: where Execute stands (pc, and i, the      *)
(* index of the stage or batch), the calls Execute has issued to the       *)
(* executor (calls), whether it has entered its rollback (rolledBack) and  *)
(* the calls the rollback has issued (undo).                               *)
(***************************************************************************)
NoRun ==
  [pc |-> "start", i |-> 0, calls |-> <<>>, rolledBack |-> FALSE, undo |-> <<>>,
   hooks |-> <<>>, err |-> ""]

(***************************************************************************)
(* plugin.Registry: the strategies map, the RWMutex (the caller that holds *)
(* the write lock, or 0, and the callers that hold the read lock) and, per *)
(* caller, the call it is in: its position, its arguments and its results. *)
(***************************************************************************)
MaxCallers == 2
Callers == 1..MaxCallers

\* a caller that is in no call of the Registry
NoCall ==
  [pc |-> "idle", op |-> "", name |-> "", s |-> "", err |-> "", ok |-> FALSE,
   got |-> "", names |-> {}]

\* NewRegistry: an empty map
NewRegistry ==
  [strategies |-> EmptyMap, writer |-> 0, readers |-> {},
   calls |-> [c \in Callers |-> NoCall]]

(***************************************************************************)
(* util.ExponentialBackoff: no call in progress.  A call in progress has   *)
(* its config, the deadline of its context (-1: none) and whether the      *)
(* context is cancelled (done), the clock (now), the loop variable attempt *)
(* and lastErr, the delay it is waiting for and the waits it has made, the *)
(* number of invocations of fn and the result of the last one, and at the  *)
(* end the error it returns.                                               *)
(***************************************************************************)
MaxAttemptsBound == 36

NoRetry ==
  [pc |-> "idle", config |-> [MaxAttempts |-> 0, BaseDelay |-> 0, MaxDelay |-> 0],
   deadline |-> -1, done |-> FALSE, now |-> 0, attempt |-> 0, lastErr |-> "",
   delay |-> 0, waits |-> <<>>, calls |-> 0, last |-> "", err |-> ""]

(***************************************************************************)
(* The Executor outside the workers: the calls Router.Rollback has issued  *)
(* through it (calls), and a call of WaitForServiceStable: where it stands *)
(* (pc), its timeout and the time since its start in seconds, whether its  *)
(* context is done, the result of its last DescribeService (svc), the      *)
(* number of DescribeService calls and the error it returns.               *)
(***************************************************************************)
NoService == [err |-> "", deployments |-> <<>>, RunningCount |-> 0, DesiredCount |-> 0]

NoWait ==
  [pc |-> "idle", timeout |-> 0, now |-> 0, ticked |-> FALSE, ctxErr |-> "",
   svc |-> NoService, err |-> ""]

NoExecutor == [calls |-> <<>>, wait |-> NoWait]

(***************************************************************************)
(* Initial state: NewRouter, nothing submitted                             *)
(***************************************************************************)
Init ==
  /\ statuses = EmptyMap
  /\ serviceQueue = EmptyMap
  /\ cancelFuncs = EmptyMap
  /\ preDeployHooks = DefaultPreDeployHooks
  /\ postDeployHooks = DefaultPostDeployHooks
  /\ inProgress = 0
  /\ pc = [r \in Slots |-> "idle"]
  /\ req = [r \in Slots |-> NoRequest]
  /\ ctxDone = [r \in Slots |-> FALSE]
  /\ cancelCall = ""
  /\ reply = NoReply
  /\ run = [r \in Slots |-> NoRun]
  /\ approvals = EmptyMap
  /\ registry = NewRegistry
  /\ retry = NoRetry
  /\ executor = NoExecutor

\* the slot the next admitted request runs in
FreeSlots == {r \in Slots : pc[r] = "idle" /\ \A q \in Slots : q < r => pc[q] # "idle"}

\* r.statuses.Store(req.DeploymentID, st) by the request in slot r
StoreStatus(r, st) == statuses' = MapStore(statuses, req[r].DeploymentID, st)

(***************************************************************************)
(* RouteDeployment, lines 80-102: validation, lease claim, strategy lookup *)
(***************************************************************************)
RouteDeployment(rq, viaServer) ==
  LET verr == ValidateRequest(rq)
      key == ServiceKey(rq)
  IN
  /\ reply = NoReply
  /\ UNCHANGED <<run, approvals, registry, retry, executor>>
  /\ UNCHANGED <<statuses, cancelFuncs, preDeployHooks, postDeployHooks,
                 inProgress, ctxDone, cancelCall>>
  /\ IF verr # ""
       THEN /\ reply' = Respond(viaServer,
                  Reply("RouteDeployment", rq, FALSE, "validation failed: " \o verr, "", verr))
            /\ UNCHANGED <<serviceQueue, pc, req>>
     ELSE IF LoadOrStoreLoaded(serviceQueue, key)
       THEN /\ reply' = Respond(viaServer,
                  Reply("RouteDeployment", rq, FALSE,
                        "deployment already in progress for this service", "",
                        "concurrent deployment detected"))
            /\ serviceQueue' = LoadOrStoreMap(serviceQueue, key, rq.DeploymentID)
            /\ UNCHANGED <<pc, req>>
     ELSE IF rq.Strategy \notin strategies
       THEN /\ reply' = Respond(viaServer,
                  Reply("RouteDeployment", rq, FALSE, "", "",
                        "unknown strategy: " \o rq.Strategy))
            /\ serviceQueue' =
                 MapDelete(LoadOrStoreMap(serviceQueue, key, rq.DeploymentID), key)
            /\ UNCHANGED <<pc, req>>
     ELSE \E r \in FreeSlots :
            /\ serviceQueue' = LoadOrStoreMap(serviceQueue, key, rq.DeploymentID)
            /\ pc' = [pc EXCEPT ![r] = "status"]
            /\ req' = [req EXCEPT ![r] = rq]
            /\ reply' = NoReply

\* a caller of the Router submits rq
Route(rq) == RouteDeployment(rq, FALSE)

\* DeploymentServer.Deploy, lines 24-40
Deploy(rq) ==
  LET serr == validateDeployRequest(rq) IN
  IF serr # ""
    THEN /\ reply = NoReply
         /\ reply' = Reply("Deploy", rq, FALSE, "invalid request: " \o serr, "", "")
         /\ UNCHANGED <<statuses, serviceQueue, cancelFuncs, preDeployHooks,
                        postDeployHooks, inProgress, pc, req, ctxDone, cancelCall,
                        run, approvals, registry, retry, executor>>
    ELSE RouteDeployment(rq, TRUE)

(***************************************************************************)
(* RouteDeployment, lines 104-110: store the RUNNING status                *)
(***************************************************************************)
StoreRunning(r) ==
  /\ reply = NoReply
  /\ UNCHANGED <<run, approvals, registry, retry, executor>>
  /\ pc[r] = "status"
  /\ StoreStatus(r, RunningStatus(Now))
  /\ pc' = [pc EXCEPT ![r] = "cancel"]
  /\ reply' = NoReply
  /\ UNCHANGED <<serviceQueue, cancelFuncs, preDeployHooks, postDeployHooks,
                 inProgress, req, ctxDone, cancelCall>>

(***************************************************************************)
(* RouteDeployment, lines 112-118 and 203-207: gauge, cancel func, spawn   *)
(* the worker, return the ACK                                              *)
(***************************************************************************)
StoreCancel(r) ==
  /\ reply = NoReply
  /\ UNCHANGED <<run, approvals, registry, retry, executor>>
  /\ pc[r] = "cancel"
  /\ inProgress' = inProgress + 1
  /\ cancelFuncs' = MapStore(cancelFuncs, req[r].DeploymentID, r)
  /\ pc' = [pc EXCEPT ![r] = "pre"]
  /\ reply' = Reply("RouteDeployment", req[r], TRUE, "deployment initiated",
                    req[r].DeploymentID, "")
  /\ UNCHANGED <<statuses, serviceQueue, preDeployHooks, postDeployHooks, req, ctxDone, cancelCall>>

(***************************************************************************)
(* Worker goroutine, lines 126-152: pre-deploy hooks, then the check       *)
(* whether the deployment was cancelled before execution.  A worker that   *)
(* stores its terminal status reads deployCtx no more: the cancel() of its *)
(* deferred function (line 123), which only touches deployCtx, is taken    *)
(* here.                                                                   *)
(***************************************************************************)
\* lines 140-152 with the default case always taken
NeverCancelledBeforeExecution(r) == FALSE

\* lines 140-141: case <-deployCtx.Done() of the select with a default
CancelledBeforeExecution(r) == ctxDone[r]

WorkerPreDeploy(r) ==
  /\ reply = NoReply
  /\ UNCHANGED <<run, approvals, registry, retry, executor>>
  /\ pc[r] = "pre"
  /\ \E failing \in SUBSET ExtraHooks :
       LET err == ExecutePreDeployHooks(failing, req[r]) IN
       IF err # ""
         THEN /\ StoreStatus(r, TerminalStatus("FAILED",
                    "pre-deploy hook failed: " \o err, Now, Now))
              /\ pc' = [pc EXCEPT ![r] = "dLease"]
              /\ ctxDone' = [ctxDone EXCEPT ![r] = TRUE]
       ELSE IF CancelledBeforeExecution(r)
         THEN /\ StoreStatus(r, TerminalStatus("CANCELLED",
                    "deployment cancelled before execution", Now, Now))
              /\ pc' = [pc EXCEPT ![r] = "dLease"]
              /\ UNCHANGED ctxDone
         ELSE /\ pc' = [pc EXCEPT ![r] = "exec"]
              /\ UNCHANGED <<statuses, ctxDone>>
  /\ reply' = NoReply
  /\ UNCHANGED <<serviceQueue, cancelFuncs, preDeployHooks, postDeployHooks,
                 inProgress, req, cancelCall>>

\* the errors strat.Execute can return ("" is nil): context.Canceled itself
\* only comes from ctx.Err() of a cancelled context
ExecuteResults(done) == {"", StrategyError} \cup (IF done THEN {Canceled} ELSE {})

\* lines 165-200: the status stored after strat.Execute returned err and the
\* post-deploy hooks returned hookErr
OutcomeStatus(err, hookErr, start, end) ==
  IF err # "" THEN TerminalStatus(ClassifyError(err), err, start, end)
  ELSE IF hookErr # ""
    THEN TerminalStatus("FAILED", "post-deploy hook failed: " \o hookErr, start, end)
  ELSE TerminalStatus("SUCCESS", "deployment completed", start, end)

(***************************************************************************)
(* Worker goroutine, lines 154-200: run the strategy, the post-deploy      *)
(* hooks, store the terminal status                                        *)
(***************************************************************************)
WorkerExecute(r) ==
  /\ reply = NoReply
  /\ UNCHANGED <<run, approvals, registry, retry, executor>>
  /\ pc[r] = "exec"
  /\ \E err \in ExecuteResults(ctxDone[r]), failing \in SUBSET ExtraHooks :
       StoreStatus(r, OutcomeStatus(err, ExecutePostDeployHooks(failing, req[r]), Now, Now))
  /\ pc' = [pc EXCEPT ![r] = "dLease"]
  /\ ctxDone' = [ctxDone EXCEPT ![r] = TRUE]
  /\ reply' = NoReply
  /\ UNCHANGED <<serviceQueue, cancelFuncs, preDeployHooks, postDeployHooks,
                 inProgress, req, cancelCall>>

(***************************************************************************)
(* Worker goroutine, deferred function, line 120                           *)
(***************************************************************************)
ReleaseLease(r) ==
  /\ reply = NoReply
  /\ UNCHANGED <<run, approvals, registry, retry, executor>>
  /\ pc[r] = "dLease"
  /\ serviceQueue' = MapDelete(serviceQueue, ServiceKey(req[r]))
  /\ pc' = [pc EXCEPT ![r] = "dCancel"]
  /\ reply' = NoReply
  /\ UNCHANGED <<statuses, cancelFuncs, preDeployHooks, postDeployHooks,
                 inProgress, req, ctxDone, cancelCall>>

(***************************************************************************)
(* Worker goroutine, deferred function, lines 121-123; the goroutine ends  *)
(***************************************************************************)
ReleaseCancel(r) ==
  /\ reply = NoReply
  /\ run' = [run EXCEPT ![r] = NoRun]
  /\ UNCHANGED <<approvals, registry, retry, executor>>
  /\ pc[r] = "dCancel"
  /\ cancelFuncs' = MapDelete(cancelFuncs, req[r].DeploymentID)
  /\ inProgress' = inProgress - 1
  /\ pc' = [pc EXCEPT ![r] = "idle"]
  /\ req' = [req EXCEPT ![r] = NoRequest]
  /\ ctxDone' = [ctxDone EXCEPT ![r] = FALSE]
  /\ reply' = NoReply
  /\ UNCHANGED <<statuses, serviceQueue, preDeployHooks, postDeployHooks, cancelCall>>

(***************************************************************************)
(* CancelDeployment, lines 225-233: load and test the status               *)
(***************************************************************************)
\* lines 224-233 without the two checks of the status record
CancelLoadStatusUnchecked(id) ==
  /\ reply = NoReply
  /\ cancelCall = ""
  /\ cancelCall' = id
  /\ UNCHANGED <<statuses, serviceQueue, cancelFuncs, preDeployHooks,
                 postDeployHooks, inProgress, pc, req, ctxDone, reply,
                 run, approvals, registry, retry, executor>>

CancelLoadStatus(id) ==
  /\ reply = NoReply
  /\ UNCHANGED <<run, approvals, registry, retry, executor>>
  /\ cancelCall = ""
  /\ IF ~MapHas(statuses, id)
       THEN /\ reply' = Reply("CancelDeployment", ByID(id), FALSE, "", "",
                              "deployment not found: " \o id)
            /\ UNCHANGED cancelCall
     ELSE IF statuses[id].Status # "RUNNING"
       THEN /\ reply' = Reply("CancelDeployment", ByID(id), FALSE, "", "",
                              "deployment " \o id \o " is not running (status: "
                                \o statuses[id].Status \o ")")
            /\ UNCHANGED cancelCall
     ELSE /\ cancelCall' = id
          /\ reply' = NoReply
  /\ UNCHANGED <<statuses, serviceQueue, cancelFuncs, preDeployHooks,
                 postDeployHooks, inProgress, pc, req, ctxDone>>

(***************************************************************************)
(* CancelDeployment, lines 235-243: load the cancel func and call it       *)
(***************************************************************************)
CancelFire ==
  /\ reply = NoReply
  /\ UNCHANGED <<run, approvals, registry, retry, executor>>
  /\ cancelCall # ""
  /\ IF MapHas(cancelFuncs, cancelCall)
       THEN /\ ctxDone' = [ctxDone EXCEPT ![cancelFuncs[cancelCall]] = TRUE]
            /\ reply' = Reply("CancelDeployment", ByID(cancelCall), TRUE, "", "", "")
       ELSE /\ reply' = Reply("CancelDeployment", ByID(cancelCall), FALSE, "", "",
                              "cancel function not found for deployment " \o cancelCall)
            /\ UNCHANGED ctxDone
  /\ cancelCall' = ""
  /\ UNCHANGED <<statuses, serviceQueue, cancelFuncs, preDeployHooks,
                 postDeployHooks, inProgress, pc, req>>

(***************************************************************************)
(* GetDeploymentStatus, lines 210-216                                      *)
(***************************************************************************)
GetDeploymentStatus(id) ==
  /\ reply = NoReply
  /\ UNCHANGED <<run, approvals, registry, retry, executor>>
  /\ IF MapHas(statuses, id)
       THEN /\ reply' = [Reply("GetDeploymentStatus", ByID(id), TRUE,
                                 statuses[id].Message, id, "")
                           EXCEPT !.Status = statuses[id].Status,
                                  !.Progress = statuses[id].Progress]
       ELSE /\ reply' = Reply("GetDeploymentStatus", ByID(id), FALSE, "", "",
                              "deployment not found: " \o id)
  /\ UNCHANGED <<statuses, serviceQueue, cancelFuncs, preDeployHooks,
                 postDeployHooks, inProgress, pc, req, ctxDone,
                 cancelCall>>

\* the errors Executor.RollbackService can return ("" is nil)
RollbackServiceResults == {"", "rollback failed: no previous deployment found"}

(***************************************************************************)
(* Router.Rollback, lines 218-220: only calls the executor                 *)
(***************************************************************************)
Rollback(id, cluster, service) ==
  /\ reply = NoReply
  /\ UNCHANGED <<run, approvals, registry, retry, executor>>
  /\ \E err \in RollbackServiceResults :
       reply' = Reply("Rollback", DeploymentRequest(id, cluster, service, "", ""),
                     err = "", "", "", err)
  /\ UNCHANGED <<statuses, serviceQueue, cancelFuncs, preDeployHooks,
                 postDeployHooks, inProgress, pc, req, ctxDone,
                 cancelCall>>

(***************************************************************************)
(* The context passed to RouteDeployment is cancelled (caller's deadline,  *)
(* end of the RPC): deployCtx, its child, is cancelled with it             *)
(***************************************************************************)
\* deployCtx derived from context.Background(): the end of the caller's
\* context does not reach it
ParentDoneDetached(r) ==
  /\ reply = NoReply
  /\ pc[r] \in {"status", "cancel", "pre", "exec"}
  /\ ~ctxDone[r]
  /\ UNCHANGED vars

ParentDone(r) ==
  /\ reply = NoReply
  /\ UNCHANGED <<run, approvals, registry, retry, executor>>
  /\ pc[r] \in {"status", "cancel", "pre", "exec"}
  /\ ~ctxDone[r]
  /\ ctxDone' = [ctxDone EXCEPT ![r] = TRUE]
  /\ reply' = NoReply
  /\ UNCHANGED <<statuses, serviceQueue, cancelFuncs, preDeployHooks,
                 postDeployHooks, inProgress, pc, req, cancelCall>>

(***************************************************************************)
(* HookRegistry.RegisterHook                                               *)
(***************************************************************************)
RegisterHookUpTo(hookType, name, extra) ==
  /\ reply = NoReply
  /\ UNCHANGED <<run, approvals, registry, retry, executor>>
  /\ Len(preDeployHooks) + Len(postDeployHooks)
       < Len(DefaultPreDeployHooks) + Len(DefaultPostDeployHooks) + extra
  /\ IF hookType = "pre-deploy"
       THEN /\ preDeployHooks' = Append(preDeployHooks, name)
            /\ UNCHANGED postDeployHooks
     ELSE IF hookType = "post-deploy"
       THEN /\ postDeployHooks' = Append(postDeployHooks, name)
            /\ UNCHANGED preDeployHooks
     ELSE UNCHANGED <<preDeployHooks, postDeployHooks>>
  /\ reply' = NoReply
  /\ UNCHANGED <<statuses, serviceQueue, cancelFuncs, inProgress, pc, req,
                 ctxDone, cancelCall>>

RegisterHook(hookType, name) == RegisterHookUpTo(hookType, name, MaxExtraHooks)

(***************************************************************************)
(* The operation that produced reply returns it to its caller              *)
(***************************************************************************)
Return ==
  /\ reply # NoReply
  /\ UNCHANGED <<run, approvals, registry, retry, executor>>
  /\ reply' = NoReply
  /\ UNCHANGED <<statuses, serviceQueue, cancelFuncs, preDeployHooks,
                 postDeployHooks, inProgress, pc, req, ctxDone, cancelCall>>

\* the steps every specification takes, whatever requests it submits
Steps ==
  \/ \E r \in Slots : StoreRunning(r)
  \/ \E r \in Slots : StoreCancel(r)
  \/ \E r \in Slots : WorkerPreDeploy(r)
  \/ \E r \in Slots : WorkerExecute(r)
  \/ \E r \in Slots : ReleaseLease(r)
  \/ \E r \in Slots : ReleaseCancel(r)
  \/ \E id \in DeploymentIDs : CancelLoadStatus(id)
  \/ CancelFire
  \/ \E id \in DeploymentIDs : GetDeploymentStatus(id)
  \/ \E rq \in ValidRequests : Rollback(rq.DeploymentID, rq.ClusterARN, rq.ServiceName)
  \/ \E r \in Slots : ParentDone(r)
  \/ Return

(***************************************************************************)
(* Spec: clients of the gRPC server submit well-formed requests            *)
(***************************************************************************)
Next ==
  \/ \E rq \in ValidRequests : Deploy(rq)
  \/ Steps

Spec == Init /\ [][Next]_vars

(***************************************************************************)
(* SpecAdmission: well-formed and malformed requests, through the server   *)
(* and straight to the Router                                              *)
(***************************************************************************)
NextAdmission ==
  \/ \E rq \in AdmissionRequests : Route(rq)
  \/ \E rq \in AdmissionRequests : Deploy(rq)
  \/ Steps

SpecAdmission == Init /\ [][NextAdmission]_vars

(***************************************************************************)
(* SpecHooks: hooks are registered on top of the default ones              *)
(***************************************************************************)
NextHooks ==
  \/ \E rq \in HookRequests : Deploy(rq)
  \/ \E hookType \in {"pre-deploy", "post-deploy"}, name \in ExtraHooks : RegisterHook(hookType, name)
  \/ Steps

SpecHooks == Init /\ [][NextHooks]_vars

(***************************************************************************)
(* Strategy configuration (internal/strategy)                              *)
(***************************************************************************)
\* strconv.Atoi on the numerals config values are drawn from; any other
\* string is not a number
Numerals ==
  [n \in {"0", "1", "10", "20", "25", "30", "50", "100", "150"} |->
     CASE n = "0" -> 0 [] n = "1" -> 1 [] n = "10" -> 10 [] n = "20" -> 20
       [] n = "25" -> 25 [] n = "30" -> 30 [] n = "50" -> 50
       [] n = "100" -> 100 [] n = "150" -> 150]

AtoiOK(str) == str \in DOMAIN Numerals

Atoi(str) == IF AtoiOK(str) THEN Numerals[str] ELSE 0

\* strings.Split(str, ",") followed by strings.TrimSpace on the stage lists
\* config values are drawn from; a string without a comma is one part
StageLists ==
  [l \in {"50,100", "10, 50, 100", "10,x,100", "x,y", "100,50"} |->
     CASE l = "50,100" -> <<"50", "100">>
       [] l = "100,50" -> <<"100", "50">>
       [] l = "10, 50, 100" -> <<"10", "50", "100">>
       [] l = "10,x,100" -> <<"10", "x", "100">>
       [] l = "x,y" -> <<"x", "y">>]

SplitTrim(str) == IF str \in DOMAIN StageLists THEN StageLists[str] ELSE <<str>>

RECURSIVE AtoiAll(_)
\* the loop of parseCanaryStages: the parts that are numbers, in order
AtoiAll(parts) ==
  IF parts = <<>> THEN <<>>
  ELSE IF AtoiOK(Head(parts)) THEN <<Atoi(Head(parts))>> \o AtoiAll(Tail(parts))
  ELSE AtoiAll(Tail(parts))

DefaultStages == <<20, 50, 100>>

\* parseCanaryStages
parseCanaryStages(cfg) ==
  IF "canary_stages" \in DOMAIN cfg /\ AtoiAll(SplitTrim(cfg["canary_stages"])) # <<>>
    THEN AtoiAll(SplitTrim(cfg["canary_stages"]))
  ELSE IF "canary_percent" \in DOMAIN cfg /\ AtoiOK(cfg["canary_percent"])
    THEN <<Atoi(cfg["canary_percent"]), 100>>
  ELSE DefaultStages

\* parseRollbackEnabled
parseRollbackEnabled(cfg) ==
  IF "enable_rollback" \in DOMAIN cfg
    THEN cfg["enable_rollback"] = "true" \/ cfg["enable_rollback"] = "1"
    ELSE TRUE

DefaultBatchSize == 25

\* RollingStrategy.parseBatchSize
parseBatchSize(cfg) ==
  IF /\ "batch_size" \in DOMAIN cfg
     /\ AtoiOK(cfg["batch_size"])
     /\ Atoi(cfg["batch_size"]) > 0
     /\ Atoi(cfg["batch_size"]) <= 100
    THEN Atoi(cfg["batch_size"])
    ELSE DefaultBatchSize

(***************************************************************************)
(* The executor as the strategies see it.  A call is recorded with its     *)
(* operation, its string argument (task definition or task set), for       *)
(* weights the weight of the new version and of the old one, and the error *)
(* it returned.                                                            *)
(***************************************************************************)
Call(op, arg, new, old) ==
  [op |-> op, arg |-> arg, new |-> new, old |-> old, err |-> ""]

RegisterTaskDefinitionCall(taskDef) == Call("RegisterTaskDefinition", taskDef, 0, 0)
UpdateServiceCall(taskDef) == Call("UpdateService", taskDef, 0, 0)
CreateTaskSetCall(taskDef, weight) == Call("CreateTaskSet", taskDef, weight, 0)
DeleteTaskSetCall(taskSetID) == Call("DeleteTaskSet", taskSetID, 0, 0)
\* Executor.UpdateTraffic(ctx, cluster, service, canaryWeight, primaryWeight)
UpdateTrafficCall(canaryWeight, primaryWeight) ==
  Call("UpdateTraffic", "", canaryWeight, primaryWeight)
GetPreviousTaskDefinitionCall == Call("GetPreviousTaskDefinition", "", 0, 0)
DescribeServiceCall == Call("DescribeService", "", 0, 0)

\* the task definition GetPreviousTaskDefinition finds
PrevTaskDef == "prev-td"

\* an error of the AWS client
AWSError == "aws error"
\* the error the AWS client returns for a call whose context is cancelled:
\* it wraps context.Canceled, it is not that value
AWSCanceled == "operation error: context canceled"
\* the error value context.DeadlineExceeded, by its message
DeadlineExceeded == "context deadline exceeded"

\* the errors a call to the AWS client can return ("" is nil) when the
\* context of the call is done or not; the mock clients return nil always
CallResults(done) == {"", AWSError} \cup (IF done THEN {AWSCanceled} ELSE {})

\* the errors of a call the ECS client retries with ExponentialBackoff
\* (RegisterTaskDefinition, UpdateService): those of a single attempt that
\* is not retried, the error of the last attempt once the attempts are used
\* up, and ctx.Err() itself when the context is cancelled between attempts
RetriedResults(done) ==
  CallResults(done) \cup {"max retry attempts reached: " \o AWSError}
    \cup (IF done THEN {Canceled} ELSE {})

\* Executor.WaitForServiceStable under a context with a timeout: nil, its
\* own timeout error, or ctx.Err()
WaitResults(done) ==
  {"", "service stabilization timeout after 2m0s", DeadlineExceeded}
    \cup (IF done THEN {Canceled} ELSE {})

\* Executor.WaitForServiceStable polls the service
WaitForServiceStableCall == Call("WaitForServiceStable", "", 0, 0)

(***************************************************************************)
(* Strategy.Execute, one step per executor call or wait.  A step maps the  *)
(* run of a worker (position rn.pc, loop index rn.i, the calls Execute     *)
(* issued so far with their results, whether the strategy's rollback ran   *)
(* and the calls it issued) to the set of its possible outcomes: the run   *)
(* and the config map after the step, whether Execute returned, and the    *)
(* error it returned.                                                      *)
(***************************************************************************)
\* the executor call c is issued and returns e
Issue(rn, c, e) == [rn EXCEPT !.calls = Append(@, [c EXCEPT !.err = e])]

\* the strategy's rollback issues the executor call c, which returns e
IssueUndo(rn, c, e) == [rn EXCEPT !.undo = Append(@, [c EXCEPT !.err = e])]

\* Execute goes on at position p with loop index i
Goto(rn, cfg, p, i) ==
  [run |-> [rn EXCEPT !.pc = p, !.i = i], cfg |-> cfg, fin |-> FALSE, err |-> ""]

\* Execute returns err after a rollback shift, whatever the phase
FinishRollingBack(rn, cfg, err) ==
  [run |-> [IssueUndo(rn, UpdateTrafficCall(0, 100), "")
              EXCEPT !.pc = "done", !.rolledBack = TRUE],
   cfg |-> cfg, fin |-> TRUE, err |-> err]

\* Execute returns err
Finish(rn, cfg, err) ==
  [run |-> [rn EXCEPT !.pc = "done"], cfg |-> cfg, fin |-> TRUE, err |-> err]

\* the service is updated whether the previous task definition was found
\* or not
RollbackServiceRunsAlways(rn, done) ==
  {Issue(Issue(rn, GetPreviousTaskDefinitionCall, e1), UpdateServiceCall(PrevTaskDef), e) :
     e1 \in CallResults(done), e \in RetriedResults(done)}

\* Executor.RollbackService: the previous task definition is looked up and,
\* when found, the service is updated to it
RollbackServiceRuns(rn, done) ==
  {Issue(rn, GetPreviousTaskDefinitionCall, e) : e \in CallResults(done) \ {""}}
    \cup {Issue(Issue(rn, GetPreviousTaskDefinitionCall, ""),
                UpdateServiceCall(PrevTaskDef), e) : e \in RetriedResults(done)}

\* QuickSyncStrategy.Execute
QuickSyncExecute(rq, rn, done) ==
  LET cfg == rq.Config IN
  CASE rn.pc = "start" ->
         {LET c == Issue(rn, RegisterTaskDefinitionCall(rq.TaskDefinition), e) IN
          IF e = "" THEN Goto(c, cfg, "update", 0) ELSE Finish(c, cfg, e) :
            e \in RetriedResults(done)}
    [] rn.pc = "update" ->
         {Finish(Issue(rn, UpdateServiceCall(rq.TaskDefinition), e), cfg, e) :
            e \in RetriedResults(done)}

\* CanaryStrategy.rollback: both errors are only logged
CanaryRollbackRuns(rn, done) ==
  {IssueUndo(IssueUndo([rn EXCEPT !.rolledBack = TRUE], UpdateTrafficCall(0, 100), e1),
             DeleteTaskSetCall("CANARY"), e2) :
     e1 \in CallResults(done), e2 \in CallResults(done)}

\* "if enableRollback { s.rollback(ctx, dctx) }; return err"
CanaryFail(rn, cfg, err, done) ==
  IF parseRollbackEnabled(cfg)
    THEN {Finish(x, cfg, err) : x \in CanaryRollbackRuns(rn, done)}
    ELSE {Finish(rn, cfg, err)}

\* fmt.Sprintf("%d%%", percent)
Stage(percent) == ToString(percent) \o "%"

\* CanaryStrategy.Execute
CanaryExecute(rq, rn, done) ==
  LET cfg == rq.Config
      stages == parseCanaryStages(cfg)
      percent == stages[rn.i]
  IN
  CASE rn.pc = "start" ->
         {Goto(x, cfg, "register", 0) : x \in RollbackServiceRuns(rn, done)}
    [] rn.pc = "register" ->
         {LET c == Issue(rn, RegisterTaskDefinitionCall(rq.TaskDefinition), e) IN
          IF e = "" THEN Goto(c, cfg, "create", 1) ELSE Finish(c, cfg, e) :
            e \in RetriedResults(done)}
    [] rn.pc = "create" ->
         UNION {LET c == Issue(rn, CreateTaskSetCall(rq.TaskDefinition, percent), e) IN
                IF e = "" THEN {Goto(c, cfg, "wait", rn.i)}
                ELSE CanaryFail(c, cfg, "stage " \o Stage(percent) \o " failed: " \o e,
                                done) :
                  e \in CallResults(done)}
    [] rn.pc = "wait" ->
         \* case <-time.After(stageTimeout): validateStageHealth
         UNION {LET c == Issue(rn, WaitForServiceStableCall, w) IN
                IF w = ""
                  THEN IF rn.i < Len(stages) THEN {Goto(c, cfg, "create", rn.i + 1)}
                       ELSE {Goto(c, cfg, "shift", rn.i)}
                  ELSE CanaryFail(c, cfg, "stage " \o Stage(percent)
                           \o " health check failed: service did not stabilize: " \o w,
                         done) :
                  w \in WaitResults(done)}
         \* case <-ctx.Done()
         \cup (IF done THEN CanaryFail(rn, cfg, Canceled, done) ELSE {})
    [] rn.pc = "shift" ->
         UNION {LET c == Issue(rn, UpdateTrafficCall(0, 100), e) IN
                IF e = "" THEN {Goto(c, cfg, "cleanup", rn.i)}
                ELSE CanaryFail(c, cfg, e, done) :
                  e \in CallResults(done)}
    [] rn.pc = "cleanup" ->
         {Finish(Issue(rn, DeleteTaskSetCall("PRIMARY"), e), cfg,
                 IF e = "" THEN "" ELSE "cleanup failed: " \o e) :
            e \in CallResults(done)}

\* BlueGreenStrategy.rollback: both errors are only logged
BlueGreenRollbackRuns(rn, done) ==
  {IssueUndo(IssueUndo([rn EXCEPT !.rolledBack = TRUE], UpdateTrafficCall(0, 100), e1),
             DeleteTaskSetCall("GREEN"), e2) :
     e1 \in CallResults(done), e2 \in CallResults(done)}

\* "s.rollback(ctx, dctx); return err"
BlueGreenFail(rn, cfg, err, done) ==
  {Finish(x, cfg, err) : x \in BlueGreenRollbackRuns(rn, done)}

\* BlueGreenStrategy.Execute
BlueGreenExecute(rq, rn, done) ==
  LET cfg == rq.Config IN
  CASE rn.pc = "start" ->
         {Goto(x, cfg, "register", 0) : x \in RollbackServiceRuns(rn, done)}
    [] rn.pc = "register" ->
         {LET c == Issue(rn, RegisterTaskDefinitionCall(rq.TaskDefinition), e) IN
          IF e = "" THEN Goto(c, cfg, "create", 0)
          ELSE Finish(c, cfg, "failed to register green task definition: " \o e) :
            e \in RetriedResults(done)}
    [] rn.pc = "create" ->
         {LET c == Issue(rn, CreateTaskSetCall(rq.TaskDefinition, 100), e) IN
          IF e = "" THEN Goto(c, cfg, "stabilize", 0)
          ELSE Finish(c, cfg, "failed to create green task set: " \o e) :
            e \in CallResults(done)}
    [] rn.pc = "stabilize" ->
         UNION {LET c == Issue(rn, WaitForServiceStableCall, w) IN
                IF w = "" THEN {Goto(c, cfg, "shift", 0)}
                ELSE BlueGreenFail(c, cfg,
                       "green environment stabilization failed: " \o w, done) :
                  w \in WaitResults(done)}
    [] rn.pc = "shift" ->
         UNION {LET c == Issue(rn, UpdateTrafficCall(100, 0), e) IN
                IF e = "" THEN {Goto(c, cfg, "sleep", 0)}
                ELSE BlueGreenFail(c, cfg, "traffic shift failed: " \o e, done) :
                  e \in CallResults(done)}
    [] rn.pc = "sleep" ->
         \* time.Sleep(cleanupDelay) does not look at the context
         {Goto(rn, cfg, "cleanup", 0)}
    [] rn.pc = "cleanup" ->
         \* the error of the cleanup is only logged
         {Finish(Issue(rn, DeleteTaskSetCall("PRIMARY"), e), cfg, "") :
            e \in CallResults(done)}

\* dctx.Config["previous_taskdef"], "" when the key is missing
PreviousTaskDef(cfg) ==
  IF "previous_taskdef" \in DOMAIN cfg THEN cfg["previous_taskdef"] ELSE ""

\* RollingStrategy.rollback: nothing without a previous task definition;
\* the service is updated only when the traffic shift succeeded
RollingRollbackRuns(rn, cfg, done) ==
  LET rb == [rn EXCEPT !.rolledBack = TRUE] IN
  IF PreviousTaskDef(cfg) = "" THEN {rb}
  ELSE {IssueUndo(rb, UpdateTrafficCall(0, 100), e) : e \in CallResults(done) \ {""}}
         \cup {IssueUndo(IssueUndo(rb, UpdateTrafficCall(0, 100), ""),
                         UpdateServiceCall(PreviousTaskDef(cfg)), e) :
                 e \in RetriedResults(done)}

\* "s.rollback(ctx, dctx); return err"
RollingFail(rn, cfg, err, done) ==
  {Finish(x, cfg, err) : x \in RollingRollbackRuns(rn, cfg, done)}

\* "if currentWeight > 100 { currentWeight = 100 }"
CurrentWeight(batch, batchSize) ==
  IF batch * batchSize > 100 THEN 100 ELSE batch * batchSize

\* RollingStrategy.Execute
RollingExecute(rq, rn, done) ==
  LET cfg == rq.Config
      batchSize == parseBatchSize(cfg)
      totalBatches == 100 \div batchSize
      currentWeight == CurrentWeight(rn.i, batchSize)
  IN
  CASE rn.pc = "start" ->
         \* the assignment to an entry of a nil map panics
         IF cfg = NoConfig
           THEN {Goto(Issue(rn, GetPreviousTaskDefinitionCall, e), cfg, "panic", 0) :
                   e \in CallResults(done)}
           ELSE {Goto(Issue(rn, GetPreviousTaskDefinitionCall, e),
                      MapStore(cfg, "previous_taskdef",
                               IF e = "" THEN PrevTaskDef ELSE ""), "register", 0) :
                   e \in CallResults(done)}
    [] rn.pc = "register" ->
         {LET c == Issue(rn, RegisterTaskDefinitionCall(rq.TaskDefinition), e) IN
          IF e = "" THEN Goto(c, cfg, "check", 1)
          ELSE Finish(c, cfg, "failed to register task definition: " \o e) :
            e \in RetriedResults(done)}
    [] rn.pc = "check" ->
         IF rn.i > totalBatches THEN {Goto(rn, cfg, "final", 0)}
         ELSE IF done THEN RollingFail(rn, cfg, Canceled, done)
         ELSE {Goto(rn, cfg, "shift", rn.i)}
    [] rn.pc = "shift" ->
         UNION {LET c == Issue(rn, UpdateTrafficCall(currentWeight, 100 - currentWeight), e) IN
                IF e = "" THEN {Goto(c, cfg, "wait", rn.i)}
                ELSE RollingFail(c, cfg, "traffic shift failed: " \o e, done) :
                  e \in CallResults(done)}
    [] rn.pc = "wait" ->
         \* case <-time.After(batchDelay), then validateBatchHealth
         UNION {LET c == Issue(rn, DescribeServiceCall, e) IN
                IF e = "" THEN {Goto(c, cfg, "check", rn.i + 1)}
                ELSE RollingFail(c, cfg, "batch health check failed: "
                                   \o "failed to validate service: " \o e, done) :
                  e \in CallResults(done)}
         \* case <-ctx.Done()
         \cup (IF done THEN RollingFail(rn, cfg, Canceled, done) ELSE {})
    [] rn.pc = "final" ->
         UNION {LET c == Issue(rn, UpdateServiceCall(rq.TaskDefinition), e) IN
                IF e = "" THEN {Goto(c, cfg, "stable", 0)}
                ELSE RollingFail(c, cfg, "final update failed: " \o e, done) :
                  e \in RetriedResults(done)}
    [] rn.pc = "stable" ->
         \* the error of the final stabilization is only logged
         {Finish(Issue(rn, WaitForServiceStableCall, w), cfg, "") :
            w \in WaitResults(done)}

\* strat.Execute of the strategy the request names
Execute(rq, rn, done) ==
  CASE rq.Strategy = "quicksync" -> QuickSyncExecute(rq, rn, done)
    [] rq.Strategy = "canary" -> CanaryExecute(rq, rn, done)
    [] rq.Strategy = "bluegreen" -> BlueGreenExecute(rq, rn, done)
    [] rq.Strategy = "rolling" -> RollingExecute(rq, rn, done)

(***************************************************************************)
(* Worker goroutine, lines 154-200: one step of the strategy; the step in  *)
(* which Execute returns also runs the post-deploy hooks and stores the    *)
(* terminal status.  A panic of the strategy ends the process.             *)
(***************************************************************************)
Crashed == \E r \in Slots : run[r].pc = "panic"

StrategyStep(r) ==
  /\ reply = NoReply
  /\ pc[r] = "exec"
  /\ ~Crashed
  /\ \E o \in Execute(req[r], run[r], ctxDone[r]) :
       /\ run' = [run EXCEPT ![r] = o.run]
       /\ req' = [req EXCEPT ![r].Config = o.cfg]
       /\ IF o.fin
            THEN /\ \E failing \in SUBSET ExtraHooks :
                      StoreStatus(r, OutcomeStatus(o.err,
                                    ExecutePostDeployHooks(failing, req[r]), Now, Now))
                 /\ pc' = [pc EXCEPT ![r] = "dLease"]
                 /\ ctxDone' = [ctxDone EXCEPT ![r] = TRUE]
            ELSE UNCHANGED <<statuses, pc, ctxDone>>
  /\ reply' = NoReply
  /\ UNCHANGED <<serviceQueue, cancelFuncs, preDeployHooks, postDeployHooks,
                 inProgress, cancelCall, approvals, registry, retry, executor>>

(***************************************************************************)
(* ApprovalManager (internal/executor/approval.go) and the Router's        *)
(* ApproveDeployment                                                       *)
(***************************************************************************)
Approvers == {"alice", "bob"}
Reasons == {"looks good", "not now"}

\* type ApprovalRequest: the fields a decision writes (RequestedAt and the
\* copies of the request fields are never read)
ApprovalRequest(status, approver, reason) ==
  [Status |-> status, Approver |-> approver, Reason |-> reason]

\* ApprovalManager.RequestApproval, lines 41-59: always returns nil
RequestApproval(id) ==
  /\ reply = NoReply
  /\ approvals' = MapStore(approvals, id, ApprovalRequest("pending", "", ""))
  /\ reply' = Reply("RequestApproval", ByID(id), TRUE, "", "", "")
  /\ UNCHANGED <<statuses, serviceQueue, cancelFuncs, preDeployHooks,
                 postDeployHooks, inProgress, pc, req, ctxDone, cancelCall, run,
                 registry, retry, executor>>

\* ApprovalManager.ApproveDeployment / RejectDeployment, lines 61-101: the
\* error message, "" for nil
DecisionError(id) ==
  IF ~MapHas(approvals, id)
    THEN "approval request not found for deployment " \o id
  ELSE IF approvals[id].Status # "pending"
    THEN "deployment " \o id \o " already " \o approvals[id].Status
  ELSE ""

\* Router.ApproveDeployment, lines 282-287, with the method of the
\* ApprovalManager it calls
ApproveDeployment(id, approved, approver, reason) ==
  LET err == DecisionError(id)
      status == IF approved THEN "approved" ELSE "rejected"
  IN
  /\ reply = NoReply
  /\ approvals' = IF err = ""
                    THEN MapStore(approvals, id, ApprovalRequest(status, approver, reason))
                    ELSE approvals
  /\ reply' = Reply(IF approved THEN "ApproveDeployment" ELSE "RejectDeployment",
                    ByID(id), err = "", "", "", err)
  /\ UNCHANGED <<statuses, serviceQueue, cancelFuncs, preDeployHooks,
                 postDeployHooks, inProgress, pc, req, ctxDone, cancelCall, run,
                 registry, retry, executor>>

(***************************************************************************)
(* SpecApproval: callers of the ApprovalManager                            *)
(***************************************************************************)
NextApproval ==
  \/ \E id \in DeploymentIDs \ {""} : RequestApproval(id)
  \/ \E id \in DeploymentIDs \ {""}, approved \in BOOLEAN,
        approver \in Approvers, reason \in Reasons :
          ApproveDeployment(id, approved, approver, reason)
  \/ Return

SpecApproval == Init /\ [][NextApproval]_vars

(***************************************************************************)
(* SpecStrategy: one service, every strategy, with and without the config  *)
(* keys enable_rollback and require_approval, one deployment at a time;    *)
(* the worker runs the strategy step by step, clients cancel and send      *)
(* approval decisions                                                      *)
(***************************************************************************)
\* the config map with the given entries: rollback and approval are <<>>
\* (key absent) or <<value>>
ConfigOf(rollback, approval) ==
  LET a == IF approval = <<>> THEN NoConfig
           ELSE MapStore(NoConfig, "require_approval", approval[1])
  IN IF rollback = <<>> THEN a ELSE MapStore(a, "enable_rollback", rollback[1])

StrategyConfigs ==
  {ConfigOf(rollback, approval) :
     rollback \in {<<>>, <<"true">>, <<"false">>, <<"yes">>},
     approval \in {<<>>, <<"true">>}}

\* the values of the config key batch_size: a divisor of 100, a number that
\* does not divide 100, a number out of range
BatchSizes == {"50", "30", "150"}

StrategyRequests ==
  {WithConfig(DeploymentRequest("d1", "c", "s1", "td", strat), cfg) :
     strat \in strategies, cfg \in StrategyConfigs}
    \cup {WithConfig(DeploymentRequest("d1", "c", "s1", "td", "rolling"),
                     MapStore(NoConfig, "batch_size", size)) : size \in BatchSizes}

\* the clients of this specification submit one deployment at a time: the
\* next one after the worker of the previous one has ended
Quiet == \A r \in Slots : pc[r] = "idle"

NextStrategy ==
  \/ ~Crashed /\ Quiet /\ \E rq \in StrategyRequests : Deploy(rq)
  \/ ~Crashed /\ \E r \in Slots : StoreRunning(r)
  \/ ~Crashed /\ \E r \in Slots : StoreCancel(r)
  \/ ~Crashed /\ \E r \in Slots : WorkerPreDeploy(r)
  \/ \E r \in Slots : StrategyStep(r)
  \/ ~Crashed /\ \E r \in Slots : ReleaseLease(r)
  \/ ~Crashed /\ \E r \in Slots : ReleaseCancel(r)
  \/ ~Crashed /\ CancelLoadStatus("d1")
  \/ ~Crashed /\ CancelFire
  \/ ~Crashed /\ \E approved \in BOOLEAN :
                   ApproveDeployment("d1", approved, "alice", "looks good")
  \/ ~Crashed /\ Return

SpecStrategy == Init /\ [][NextStrategy]_vars

(***************************************************************************)
(* plugin.Registry (internal/plugin/registry.go).  Each method takes the   *)
(* lock, runs its body and releases the lock on return (defer).  A caller  *)
(* is at "lock" before it has the lock, at "check", "store", "read" or     *)
(* "delete" inside the body, and at "unlock" with its results computed and *)
(* the lock still held.                                                    *)
(***************************************************************************)
\* the names callers register and look up: one the Router knows, one it
\* does not
Names == {"quicksync", "custom"}

\* the strategy values registered
Impls == {"A", "B"}

\* the Registry is no part of the Router: its methods leave the Router alone
RouterUnchanged ==
  UNCHANGED <<statuses, serviceQueue, cancelFuncs, preDeployHooks,
              postDeployHooks, inProgress, pc, req, ctxDone, cancelCall,
              reply, run, approvals, retry, executor>>

\* caller c is in no call
IsIdle(c) == registry.calls[c].pc = "idle"

\* the call of caller c becomes call
SetCall(c, call) == [registry EXCEPT !.calls[c] = call]

\* a caller enters a method of the Registry
CallRegistry(c, op, name, s) ==
  /\ IsIdle(c)
  /\ RouterUnchanged
  /\ reply = NoReply
  /\ registry' = SetCall(c, [NoCall EXCEPT !.pc = "lock", !.op = op,
                                           !.name = name, !.s = s])

\* r.mu.Lock() never waits
CanLockAlways(c) == TRUE

\* r.mu.Lock() returns when no caller holds the lock, for writing or reading
CanLock(c) == registry.writer = 0 /\ registry.readers = {}

\* r.mu.RLock() returns when no caller holds the lock for writing
CanRLock(c) == registry.writer = 0

\* the methods that take the lock for writing
Writers == {"Register", "Unregister"}

\* the first statement of the body of each method
Body(op) ==
  CASE op = "Register" -> "check"
    [] op = "Unregister" -> "delete"
    [] OTHER -> "read"

\* r.mu.Lock() of Register and Unregister
Lock(c) ==
  LET call == registry.calls[c] IN
  /\ call.pc = "lock"
  /\ RouterUnchanged
  /\ call.op \in Writers
  /\ CanLock(c)
  /\ registry' = [registry EXCEPT !.writer = c, !.calls[c].pc = Body(call.op)]

\* r.mu.RLock() of Get and List
RLock(c) ==
  LET call == registry.calls[c] IN
  /\ call.pc = "lock"
  /\ RouterUnchanged
  /\ call.op \notin Writers
  /\ CanRLock(c)
  /\ registry' = [registry EXCEPT !.readers = @ \cup {c},
                                  !.calls[c].pc = Body(call.op)]

\* Register, line 28-30: the name is looked up, and an error is returned
\* when it is there
RegisterCheck(c) ==
  LET call == registry.calls[c] IN
  /\ call.pc = "check"
  /\ RouterUnchanged
  /\ registry' =
       IF MapHas(registry.strategies, call.name)
         THEN [registry EXCEPT
                 !.calls[c].pc = "unlock",
                 !.calls[c].err = "strategy " \o call.name \o " already registered"]
         ELSE [registry EXCEPT !.calls[c].pc = "store"]

\* Register, line 32-33
RegisterStore(c) ==
  LET call == registry.calls[c] IN
  /\ call.pc = "store"
  /\ RouterUnchanged
  /\ registry' = [registry EXCEPT
                    !.strategies = MapStore(@, call.name, call.s),
                    !.calls[c].pc = "unlock"]

\* Get, line 41-42
Get(c) ==
  LET call == registry.calls[c]
      ok == MapHas(registry.strategies, call.name)
  IN
  /\ call.pc = "read"
  /\ RouterUnchanged
  /\ call.op = "Get"
  /\ registry' = [registry EXCEPT
                    !.calls[c].pc = "unlock",
                    !.calls[c].ok = ok,
                    !.calls[c].got = IF ok THEN registry.strategies[call.name] ELSE ""]

\* List, line 50-54: the names of the map, in no particular order
List(c) ==
  LET call == registry.calls[c] IN
  /\ call.pc = "read"
  /\ RouterUnchanged
  /\ call.op = "List"
  /\ registry' = [registry EXCEPT
                    !.calls[c].pc = "unlock",
                    !.calls[c].names = DOMAIN registry.strategies]

\* Unregister, line 62
Unregister(c) ==
  LET call == registry.calls[c] IN
  /\ call.pc = "delete"
  /\ RouterUnchanged
  /\ registry' = [registry EXCEPT
                    !.strategies = MapDelete(@, call.name),
                    !.calls[c].pc = "unlock"]

\* the deferred r.mu.Unlock() or r.mu.RUnlock(), and the method returns
Unlock(c) ==
  LET call == registry.calls[c] IN
  /\ call.pc = "unlock"
  /\ RouterUnchanged
  /\ registry' = [registry EXCEPT
                    !.writer = IF call.op \in Writers THEN 0 ELSE @,
                    !.readers = @ \ {c},
                    !.calls[c] = NoCall]

(***************************************************************************)
(* SpecRegistry: callers use the Registry concurrently, and between their  *)
(* calls clients submit deployments that name a strategy of the Router or  *)
(* a strategy only the Registry can know.                                  *)
(***************************************************************************)
RegistryRequests ==
  {DeploymentRequest("d1", "c", "s1", "td", strat) : strat \in Names}

\* no caller is inside the Registry
RegistryQuiet == \A c \in Callers : IsIdle(c)

NextRegistry ==
  \/ \E c \in Callers, name \in Names, s \in Impls :
       Quiet /\ CallRegistry(c, "Register", name, s)
  \/ \E c \in Callers, name \in Names : Quiet /\ CallRegistry(c, "Get", name, "")
  \/ \E c \in Callers : Quiet /\ CallRegistry(c, "List", "", "")
  \/ \E c \in Callers, name \in Names :
       Quiet /\ CallRegistry(c, "Unregister", name, "")
  \/ \E c \in Callers : Lock(c)
  \/ \E c \in Callers : RLock(c)
  \/ \E c \in Callers : RegisterCheck(c)
  \/ \E c \in Callers : RegisterStore(c)
  \/ \E c \in Callers : Get(c)
  \/ \E c \in Callers : List(c)
  \/ \E c \in Callers : Unregister(c)
  \/ \E c \in Callers : Unlock(c)
  \/ \E rq \in RegistryRequests : Quiet /\ RegistryQuiet /\ Deploy(rq)
  \/ \E r \in Slots : StoreRunning(r)
  \/ \E r \in Slots : StoreCancel(r)
  \/ \E r \in Slots : WorkerPreDeploy(r)
  \/ \E r \in Slots : WorkerExecute(r)
  \/ \E r \in Slots : ReleaseLease(r)
  \/ \E r \in Slots : ReleaseCancel(r)
  \/ Return

SpecRegistry == Init /\ [][NextRegistry]_vars

(***************************************************************************)
(* util.ExponentialBackoff (internal/util/retry.go).  Durations are in     *)
(* seconds.  The call is followed statement by statement, because the      *)
(* context can be cancelled at any point of it: "top" is the head of the   *)
(* loop, "wait" the select on the timer and ctx.Done(), "call" the         *)
(* invocation of fn, "done" the return.                                    *)
(***************************************************************************)
\* DefaultRetryConfig, lines 18-24
DefaultRetryConfig == [MaxAttempts |-> 3, BaseDelay |-> 1, MaxDelay |-> 30]

\* the retry configurations callers pass: the zero value of MaxAttempts, the
\* default and every value up to the bound
RetryConfigs ==
  {[MaxAttempts |-> m, BaseDelay |-> b, MaxDelay |-> x] :
     m \in 0..MaxAttemptsBound, b \in {1, 2}, x \in {3, 30}}

\* the time from the start of the call to the deadline of ctx; -1: ctx has
\* no deadline
Deadlines == {-1, 1, 4}

\* the errors fn returns, by their messages
ThunkErrors ==
  {"Throttling",
   "ThrottlingException: Rate exceeded",
   "read: connection reset by peer",
   "aws error",
   "invalid task definition: unexpected end of JSON input"}

\* IsRetryable, lines 76-84
retryableErrors ==
  {"RequestTimeout", "ServiceUnavailable", "Throttling", "ThrottlingException",
   "TooManyRequests", "connection reset", "connection refused"}

\* contains(s, substr): the substring test
containsSubstring(s, substr) ==
  \E i \in 1..(Len(s) - Len(substr) + 1) : SubSeq(s, i, i + Len(substr) - 1) = substr

\* contains(s, substr), lines 95-99
contains(s, substr) ==
  /\ Len(s) >= Len(substr)
  /\ \/ s = substr
     \/ /\ Len(s) > Len(substr)
        /\ \/ SubSeq(s, 1, Len(substr)) = substr
           \/ SubSeq(s, Len(s) - Len(substr) + 1, Len(s)) = substr
           \/ Len(s) > Len(substr) * 2

\* IsRetryable(err), lines 70-93; "" is the nil error
IsRetryable(err) ==
  /\ err # ""
  /\ \E retryable \in retryableErrors : contains(err, retryable)

\* x doubled k times, as far as cap: a product above cap is left as it is
RECURSIVE Doubled(_, _, _)
Doubled(x, k, cap) == IF k = 0 \/ x > cap THEN x ELSE Doubled(2 * x, k - 1, cap)

\* the largest time.Duration (2^63 - 1 nanoseconds), in units of 16 seconds
MaxDuration16 == 576460752

\* float64(BaseDelay) * math.Pow(2, k) is a value of time.Duration (int64
\* nanoseconds): base * 2^k seconds < 2^63 nanoseconds
FitsDuration(base, k) ==
  k < 4 \/ Doubled(base, k - 4, MaxDuration16) <= MaxDuration16

\* a negative time.Duration
NegativeDelay == -1

\* lines 35-38: the delay before attempt number attempt (counted from 0).
\* The conversion of a float64 that time.Duration cannot represent succeeds
\* with an implementation-dependent value: the smallest int64 on amd64, the
\* largest (then capped by MaxDelay) on arm64.
Delays(config, attempt) ==
  IF FitsDuration(config.BaseDelay, attempt - 1)
    THEN LET delay == Doubled(config.BaseDelay, attempt - 1, config.MaxDelay) IN
         {IF delay > config.MaxDelay THEN config.MaxDelay ELSE delay}
    ELSE {NegativeDelay, config.MaxDelay}

\* line 31 and 42: hasDeadline, and time.Until(deadline)
HasDeadline == retry.deadline # -1
TimeUntilDeadline == retry.deadline - retry.now

\* line 43: the delay would reach or pass the deadline
ExceedsDeadlineStrictly(delay, timeUntilDeadline) == delay > timeUntilDeadline

ExceedsDeadline(delay, timeUntilDeadline) == delay >= timeUntilDeadline

\* fmt.Errorf("...: %w", lastErr); a nil lastErr is printed as %!w(<nil>)
Wrap(prefix, lastErr) == prefix \o (IF lastErr = "" THEN "%!w(<nil>)" ELSE lastErr)

\* everything but retry
RetryUnchanged ==
  UNCHANGED <<statuses, serviceQueue, cancelFuncs, preDeployHooks,
              postDeployHooks, inProgress, pc, req, ctxDone, cancelCall,
              reply, run, approvals, registry, executor>>

\* ExponentialBackoff(ctx, config, fn) is called, lines 27-31
StartRetry(config, deadline) ==
  /\ retry.pc = "idle"
  /\ RetryUnchanged
  /\ retry' = [NoRetry EXCEPT !.pc = "top", !.config = config, !.deadline = deadline]

\* ExponentialBackoff returns retry.err (line 44, 51, 58, 63 or 66)
ReturnWith(err) == [retry EXCEPT !.pc = "done", !.err = err]

\* the head of the loop, lines 33-46
LoopTop ==
  /\ retry.pc = "top"
  /\ RetryUnchanged
  /\ IF retry.attempt >= retry.config.MaxAttempts
       THEN retry' = ReturnWith(Wrap("max retry attempts reached: ", retry.lastErr))
     ELSE IF retry.attempt = 0
       THEN retry' = [retry EXCEPT !.pc = "call"]
     ELSE \E delay \in Delays(retry.config, retry.attempt) :
            IF HasDeadline /\ ExceedsDeadline(delay, TimeUntilDeadline)
              THEN retry' = ReturnWith(
                     Wrap("cannot retry: delay would exceed context deadline: ",
                          retry.lastErr))
              ELSE retry' = [retry EXCEPT !.pc = "wait", !.delay = delay]

\* line 49: the timer fires.  A timer of a positive delay fires before a
\* context that is already done is seen only by chance of the select when
\* both are ready, which takes a delay that has run out at once.
TimerFires ==
  /\ retry.pc = "wait"
  /\ RetryUnchanged
  /\ ~retry.done \/ retry.delay <= 0
  /\ LET waited == IF retry.delay > 0 THEN retry.delay ELSE 0 IN
     retry' = [retry EXCEPT !.pc = "call",
                            !.now = @ + waited,
                            !.waits = Append(@, waited)]

\* lines 50-51: ctx.Done() is closed, ctx.Err() is returned
WaitCancelled ==
  /\ retry.pc = "wait"
  /\ RetryUnchanged
  /\ retry.done
  /\ retry' = ReturnWith(Canceled)

\* lines 55-63: fn is invoked and returns err after took seconds
CallThunk(err, took) ==
  /\ retry.pc = "call"
  /\ RetryUnchanged
  /\ took = 0 \/ HasDeadline
  /\ LET called == [retry EXCEPT !.calls = @ + 1, !.last = err, !.now = @ + took] IN
     IF err = ""
       THEN retry' = [called EXCEPT !.pc = "done", !.err = ""]
     ELSE IF ~IsRetryable(err)
       THEN retry' = [called EXCEPT !.pc = "done", !.err = err, !.lastErr = err]
     ELSE retry' = [called EXCEPT !.pc = "top", !.lastErr = err, !.attempt = @ + 1]

\* the parent cancels ctx while the call is running
CancelRetry ==
  /\ retry.pc \in {"top", "wait", "call"}
  /\ RetryUnchanged
  /\ ~retry.done
  /\ retry' = [retry EXCEPT !.done = TRUE]

\* the caller has the result
FinishRetry ==
  /\ retry.pc = "done"
  /\ RetryUnchanged
  /\ retry' = NoRetry

(***************************************************************************)
(* SpecRetry: calls of ExponentialBackoff, one after the other             *)
(***************************************************************************)
NextRetry ==
  \/ \E config \in RetryConfigs, deadline \in Deadlines : StartRetry(config, deadline)
  \/ LoopTop
  \/ TimerFires
  \/ WaitCancelled
  \/ \E err \in {""} \cup ThunkErrors, took \in {0, 1} : CallThunk(err, took)
  \/ CancelRetry
  \/ FinishRetry

SpecRetry == Init /\ [][NextRetry]_vars

(***************************************************************************)
(* Router.Rollback, lines 218-220, with the calls Executor.RollbackService *)
(* issues (executor.go lines 43-49) under the context of the caller        *)
(***************************************************************************)
RouterRollback(id, cluster, service) ==
  /\ reply = NoReply
  /\ \E done \in BOOLEAN :
       \E rn \in RollbackServiceRuns(NoRun, done) :
         LET last == rn.calls[Len(rn.calls)]
             err == IF last.op = "GetPreviousTaskDefinition"
                      THEN "rollback failed: " \o last.err
                      ELSE last.err
         IN /\ executor' = [executor EXCEPT !.calls = rn.calls]
            /\ reply' = Reply("Rollback", DeploymentRequest(id, cluster, service, "", ""),
                              err = "", "", "", err)
  /\ UNCHANGED <<statuses, serviceQueue, cancelFuncs, preDeployHooks,
                 postDeployHooks, inProgress, pc, req, ctxDone, cancelCall,
                 run, approvals, registry, retry>>

(***************************************************************************)
(* SpecRollback: rollbacks are requested while deployments run             *)
(***************************************************************************)
NextRollback ==
  \/ \E rq \in ValidRequests : Deploy(rq)
  \/ \E r \in Slots : StoreRunning(r)
  \/ \E r \in Slots : StoreCancel(r)
  \/ \E r \in Slots : WorkerPreDeploy(r)
  \/ \E r \in Slots : WorkerExecute(r)
  \/ \E r \in Slots : ReleaseLease(r)
  \/ \E r \in Slots : ReleaseCancel(r)
  \/ \E rq \in ValidRequests :
       RouterRollback(rq.DeploymentID, rq.ClusterARN, rq.ServiceName)
  \/ Return

SpecRollback == Init /\ [][NextRollback]_vars

(***************************************************************************)
(* SpecCancel: deployments are cancelled by id while they are admitted,    *)
(* run and end                                                             *)
(***************************************************************************)
NextCancel ==
  \/ \E rq \in ValidRequests : Deploy(rq)
  \/ \E r \in Slots : StoreRunning(r)
  \/ \E r \in Slots : StoreCancel(r)
  \/ \E r \in Slots : WorkerPreDeploy(r)
  \/ \E r \in Slots : WorkerExecute(r)
  \/ \E r \in Slots : ReleaseLease(r)
  \/ \E r \in Slots : ReleaseCancel(r)
  \/ \E id \in DeploymentIDs : CancelLoadStatus(id)
  \/ CancelFire
  \/ Return

SpecCancel == Init /\ [][NextCancel]_vars

(***************************************************************************)
(* SpecCanary: canary deployments with the config keys canary_stages and   *)
(* canary_percent, one at a time                                           *)
(***************************************************************************)
\* values of canary_stages: well-formed lists, lists with parts that are not
\* numbers, a decreasing list, a stage above 100
CanaryStageValues == {"50,100", "10, 50, 100", "10,x,100", "x,y", "100,50", "150"}

\* values of canary_percent: a percentage, a number above 100, not a number
CanaryPercentValues == {"30", "150", "x"}

CanaryRequests ==
  {WithConfig(DeploymentRequest("d1", "c", "s1", "td", "canary"), cfg) :
     cfg \in {MapStore(NoConfig, "canary_stages", l) : l \in CanaryStageValues}
            \cup {MapStore(NoConfig, "canary_percent", p) : p \in CanaryPercentValues}
            \cup {MapStore(MapStore(NoConfig, "canary_stages", "x,y"),
                           "canary_percent", "30")}}

NextCanary ==
  \/ Quiet /\ \E rq \in CanaryRequests : Deploy(rq)
  \/ \E r \in Slots : StoreRunning(r)
  \/ \E r \in Slots : StoreCancel(r)
  \/ \E r \in Slots : WorkerPreDeploy(r)
  \/ \E r \in Slots : StrategyStep(r)
  \/ \E r \in Slots : ReleaseLease(r)
  \/ \E r \in Slots : ReleaseCancel(r)
  \/ CancelLoadStatus("d1")
  \/ CancelFire
  \/ Return

SpecCanary == Init /\ [][NextCanary]_vars

(***************************************************************************)
(* Executor.WaitForServiceStable, part_008 lines 19-83, one call at a      *)
(* time.  Times are seconds since the call; now is the time of the last    *)
(* tick of the ticker.  The branch for a nil ecsClient is never taken:     *)
(* NewExecutor always sets the client.                                     *)
(***************************************************************************)
\* line 21: 5 * time.Minute
DefaultTimeout == 300
\* line 31: time.NewTicker(10 * time.Second)
TickPeriod == 10

\* the timeouts callers pass: none, shorter than a tick, two ticks, the two
\* minutes of validateStageHealth
Timeouts == {0, 5, 20, 120}

\* fmt's %v of the timeout
DurationString(t) ==
  CASE t = 5 -> "5s" [] t = 20 -> "20s" [] t = 120 -> "2m0s" [] t = 300 -> "5m0s"

\* a *string that is nil
NilStatus == "<nil>"

Deployments ==
  [Status : {"PRIMARY", "ACTIVE", NilStatus}, RolloutState : {"COMPLETED", "IN_PROGRESS"},
   RunningCount : {1, 2}, DesiredCount : {2}]

\* what ECSClient.DescribeService returns: an error, or a service with no,
\* one or two deployments
DescribeResults ==
  {[NoService EXCEPT !.err = e] :
     e \in {"describe services failed: " \o AWSError, "service s1 not found in cluster c"}}
  \cup {[err |-> "", deployments |-> ds, RunningCount |-> n, DesiredCount |-> 2] :
          ds \in {<<>>} \cup {<<x>> : x \in Deployments}
                 \cup {<<x, [x EXCEPT !.Status = "ACTIVE"]>> : x \in Deployments},
          n \in {1, 2}}

\* lines 56-63 without serviceMatch
IsStableDeployment(svc) ==
  /\ Len(svc.deployments) = 1
  /\ svc.deployments[1].Status # NilStatus /\ svc.deployments[1].Status = "PRIMARY"
  /\ svc.deployments[1].RolloutState = "COMPLETED"
  /\ svc.deployments[1].RunningCount = svc.deployments[1].DesiredCount

\* lines 56-63: len(svc.Deployments) == 1 && isPrimary && isCompleted &&
\* tasksMatch && serviceMatch
IsStable(svc) ==
  /\ Len(svc.deployments) = 1
  /\ svc.deployments[1].Status # NilStatus /\ svc.deployments[1].Status = "PRIMARY"
  /\ svc.deployments[1].RolloutState = "COMPLETED"
  /\ svc.deployments[1].RunningCount = svc.deployments[1].DesiredCount
  /\ svc.RunningCount = svc.DesiredCount

ExecutorUnchanged ==
  UNCHANGED <<statuses, serviceQueue, cancelFuncs, preDeployHooks, postDeployHooks,
              inProgress, pc, req, ctxDone, cancelCall, reply, run, approvals,
              registry, retry>>

\* lines 19-35: the call, up to the first select
WaitForServiceStable(timeout) ==
  /\ executor.wait.pc = "idle"
  /\ executor' = [executor EXCEPT !.wait =
                    [NoWait EXCEPT !.pc = "select",
                                   !.timeout = IF timeout = 0 THEN DefaultTimeout
                                               ELSE timeout]]
  /\ ExecutorUnchanged

\* the context of the call ends: cancelled, or its deadline passes
WaitContextEnds(e) ==
  /\ executor.wait.pc = "select"
  /\ executor.wait.ctxErr = ""
  /\ executor' = [executor EXCEPT !.wait.ctxErr = e]
  /\ ExecutorUnchanged

\* the ticker fires while the call is blocked in the select; with the
\* context done the select has been left through ctx.Done() before.  A
\* tick is late by the time the last poll took
TickerFires(late) ==
  /\ executor.wait.pc = "select"
  /\ ~executor.wait.ticked
  /\ executor.wait.ctxErr = ""
  /\ executor' = [executor EXCEPT !.wait.now = @ + TickPeriod + late,
                                  !.wait.ticked = TRUE]
  /\ ExecutorUnchanged

\* lines 38-39: case <-ctx.Done(): return ctx.Err()
WaitDone ==
  /\ executor.wait.pc = "select"
  /\ executor.wait.ctxErr # ""
  /\ executor' = [executor EXCEPT !.wait.pc = "returned",
                                  !.wait.err = executor.wait.ctxErr]
  /\ ExecutorUnchanged

\* lines 40-80: case <-ticker.C.  time.Now() is later than the tick, so it
\* is after the deadline as soon as the tick is not before it
WaitTick ==
  /\ executor.wait.pc = "select"
  /\ executor.wait.ticked
  /\ IF executor.wait.now >= executor.wait.timeout
       THEN executor' = [executor EXCEPT
                           !.wait.pc = "returned",
                           !.wait.ticked = FALSE,
                           !.wait.err = "service stabilization timeout after "
                                          \o DurationString(executor.wait.timeout)]
       ELSE \E svc \in DescribeResults :
              executor' = [executor EXCEPT
                             !.wait.svc = svc,
                             !.wait.ticked = FALSE,
                             !.wait.pc = IF svc.err = "" /\ IsStable(svc)
                                           THEN "returned" ELSE "select"]
  /\ ExecutorUnchanged

\* the caller takes the result
WaitReturns ==
  /\ executor.wait.pc = "returned"
  /\ executor' = [executor EXCEPT !.wait = NoWait]
  /\ ExecutorUnchanged

NextWaiter ==
  \/ \E timeout \in Timeouts : WaitForServiceStable(timeout)
  \/ \E e \in {Canceled, DeadlineExceeded} : WaitContextEnds(e)
  \/ \E late \in {0, TickPeriod} : TickerFires(late)
  \/ WaitDone
  \/ WaitTick
  \/ WaitReturns

SpecWaiter == Init /\ [][NextWaiter]_vars

(***************************************************************************)
(* The worker goroutine hook by hook (part_006 lines 126-200, hooks.go     *)
(* lines 47-69): run[r].hooks is the log of the hook functions the worker  *)
(* called with their results, run[r].err what strat.Execute returned       *)
(***************************************************************************)
MaxWorkerHooks == 2

\* hooks registered through RegisterHook; the Fn of each may fail
WorkerHooks == {"custom", "audit"}

HookCall(kind, name, err) == [kind |-> kind, name |-> name, err |-> err]

HookCalls(r, kind) == SelectSeq(run[r].hooks, LAMBDA h : h.kind = kind)

\* the loop of ExecutePreDeployHooks goes on after a failing hook
WorkerPreDeployHookContinues(r) ==
  /\ reply = NoReply
  /\ pc[r] = "pre"
  /\ Len(run[r].hooks) < Len(preDeployHooks)
  /\ \E failing \in SUBSET WorkerHooks :
       LET name == preDeployHooks[Len(run[r].hooks) + 1]
           err == HookFn(name, failing, req[r].DeploymentID, req[r].ClusterARN,
                         req[r].ServiceName)
       IN run' = [run EXCEPT ![r].hooks = Append(@, HookCall("pre-deploy", name, err))]
  /\ UNCHANGED <<statuses, serviceQueue, cancelFuncs, preDeployHooks,
                 postDeployHooks, inProgress, pc, req, ctxDone, cancelCall, reply,
                 approvals, registry, retry, executor>>

\* lines 127-152: one pass of the loop of ExecutePreDeployHooks, or, after
\* the last hook, the check of deployCtx before the strategy
WorkerPreDeployHook(r) ==
  /\ reply = NoReply
  /\ pc[r] = "pre"
  /\ IF Len(run[r].hooks) < Len(preDeployHooks)
       THEN \E failing \in SUBSET WorkerHooks :
              LET name == preDeployHooks[Len(run[r].hooks) + 1]
                  err == HookFn(name, failing, req[r].DeploymentID, req[r].ClusterARN,
                                req[r].ServiceName)
              IN /\ run' = [run EXCEPT ![r].hooks =
                                         Append(@, HookCall("pre-deploy", name, err))]
                 /\ IF err # ""
                      THEN /\ StoreStatus(r, TerminalStatus("FAILED",
                                 "pre-deploy hook failed: pre-deploy hook " \o name
                                   \o " failed: " \o err, Now, Now))
                           /\ pc' = [pc EXCEPT ![r] = "dLease"]
                           /\ ctxDone' = [ctxDone EXCEPT ![r] = TRUE]
                      ELSE UNCHANGED <<statuses, pc, ctxDone>>
     ELSE IF CancelledBeforeExecution(r)
       THEN /\ StoreStatus(r, TerminalStatus("CANCELLED",
                  "deployment cancelled before execution", Now, Now))
            /\ pc' = [pc EXCEPT ![r] = "dLease"]
            /\ UNCHANGED <<run, ctxDone>>
       ELSE /\ pc' = [pc EXCEPT ![r] = "exec"]
            /\ UNCHANGED <<statuses, run, ctxDone>>
  /\ UNCHANGED <<serviceQueue, cancelFuncs, preDeployHooks, postDeployHooks,
                 inProgress, req, cancelCall, reply, approvals, registry, retry,
                 executor>>

\* lines 154-177: a step of strat.Execute; when it returns an error the
\* status is stored, otherwise the post-deploy hooks are next
WorkerStrategy(r) ==
  /\ reply = NoReply
  /\ pc[r] = "exec"
  /\ ~Crashed
  /\ \E o \in Execute(req[r], run[r], ctxDone[r]) :
       /\ req' = [req EXCEPT ![r].Config = o.cfg]
       /\ run' = [run EXCEPT ![r] = [o.run EXCEPT !.err = o.err]]
       /\ IF o.fin /\ o.err # ""
            THEN /\ StoreStatus(r, OutcomeStatus(o.err, "", Now, Now))
                 /\ pc' = [pc EXCEPT ![r] = "dLease"]
                 /\ ctxDone' = [ctxDone EXCEPT ![r] = TRUE]
          ELSE IF o.fin
            THEN /\ pc' = [pc EXCEPT ![r] = "post"]
                 /\ UNCHANGED <<statuses, ctxDone>>
            ELSE UNCHANGED <<statuses, pc, ctxDone>>
  /\ UNCHANGED <<serviceQueue, cancelFuncs, preDeployHooks, postDeployHooks,
                 inProgress, cancelCall, reply, approvals, registry, retry, executor>>

\* lines 180-199: one pass of the loop of ExecutePostDeployHooks, or, after
\* the last hook, the SUCCESS record
WorkerPostDeployHook(r) ==
  /\ reply = NoReply
  /\ pc[r] = "post"
  /\ IF Len(HookCalls(r, "post-deploy")) < Len(postDeployHooks)
       THEN \E failing \in SUBSET WorkerHooks :
              LET name == postDeployHooks[Len(HookCalls(r, "post-deploy")) + 1]
                  err == HookFn(name, failing, req[r].DeploymentID, req[r].ClusterARN,
                                req[r].ServiceName)
              IN /\ run' = [run EXCEPT ![r].hooks =
                                         Append(@, HookCall("post-deploy", name, err))]
                 /\ IF err # ""
                      THEN /\ StoreStatus(r, OutcomeStatus("",
                                 "post-deploy hook " \o name \o " failed: " \o err,
                                 Now, Now))
                           /\ pc' = [pc EXCEPT ![r] = "dLease"]
                           /\ ctxDone' = [ctxDone EXCEPT ![r] = TRUE]
                      ELSE UNCHANGED <<statuses, pc, ctxDone>>
       ELSE /\ StoreStatus(r, OutcomeStatus("", "", Now, Now))
            /\ pc' = [pc EXCEPT ![r] = "dLease"]
            /\ ctxDone' = [ctxDone EXCEPT ![r] = TRUE]
            /\ UNCHANGED run
  /\ UNCHANGED <<serviceQueue, cancelFuncs, preDeployHooks, postDeployHooks,
                 inProgress, req, cancelCall, reply, approvals, registry, retry,
                 executor>>

(***************************************************************************)
(* SpecWorker: hooks are registered while no deployment runs; deployments  *)
(* of d1 run one at a time and may be cancelled                            *)
(***************************************************************************)
WorkerRequests ==
  {DeploymentRequest("d1", "c", "s1", "td", strat) : strat \in {"quicksync", "bluegreen"}}

NextWorker ==
  \/ Quiet /\ \E rq \in WorkerRequests : Deploy(rq)
  \/ Quiet /\ \E hookType \in {"pre-deploy", "post-deploy"}, name \in WorkerHooks :
                RegisterHookUpTo(hookType, name, MaxWorkerHooks)
  \/ \E r \in Slots : StoreRunning(r)
  \/ \E r \in Slots : StoreCancel(r)
  \/ \E r \in Slots : WorkerPreDeployHook(r)
  \/ \E r \in Slots : WorkerStrategy(r)
  \/ \E r \in Slots : WorkerPostDeployHook(r)
  \/ \E r \in Slots : ReleaseLease(r)
  \/ \E r \in Slots : ReleaseCancel(r)
  \/ CancelLoadStatus("d1")
  \/ CancelFire
  \/ Return

SpecWorker == Init /\ [][NextWorker]_vars

(***************************************************************************)
(* SpecLive: deployments of d1 with each strategy, without config entries  *)
(* and with one, one at a time; the caller's context may end.  Every       *)
(* goroutine that can take a step takes it in the end (the Go scheduler);  *)
(* a step of the strategy is an executor call that returns or a timer that *)
(* fires.                                                                  *)
(***************************************************************************)
LiveRequests ==
  {WithConfig(DeploymentRequest("d1", "c", "s1", "td", strat), cfg) :
     strat \in strategies, cfg \in {NoConfig, MapStore(NoConfig, "batch_size", "50")}}

NextLive ==
  \/ Quiet /\ \E rq \in LiveRequests : Deploy(rq)
  \/ \E r \in Slots : StoreRunning(r)
  \/ \E r \in Slots : StoreCancel(r)
  \/ \E r \in Slots : WorkerPreDeploy(r)
  \/ \E r \in Slots : StrategyStep(r)
  \/ \E r \in Slots : ReleaseLease(r)
  \/ \E r \in Slots : ReleaseCancel(r)
  \/ \E r \in Slots : ParentDone(r)
  \/ Return

Scheduling ==
  /\ WF_vars(Return)
  /\ \A r \in Slots :
       /\ WF_vars(StoreRunning(r))
       /\ WF_vars(StoreCancel(r))
       /\ WF_vars(WorkerPreDeploy(r))
       /\ WF_vars(StrategyStep(r))
       /\ WF_vars(ReleaseLease(r))
       /\ WF_vars(ReleaseCancel(r))

SpecLive == Init /\ [][NextLive]_vars /\ Scheduling

(***************************************************************************)
(* SpecScope: deployments whose only source of cancellation is the context *)
(* of the Deploy call that admitted them (nobody calls CancelDeployment)   *)
(***************************************************************************)
NextScope ==
  \/ \E rq \in ValidRequests : Deploy(rq)
  \/ \E r \in Slots : StoreRunning(r)
  \/ \E r \in Slots : StoreCancel(r)
  \/ \E r \in Slots : WorkerPreDeploy(r)
  \/ \E r \in Slots : WorkerExecute(r)
  \/ \E r \in Slots : ReleaseLease(r)
  \/ \E r \in Slots : ReleaseCancel(r)
  \/ \E r \in Slots : ParentDone(r)
  \/ Return

SpecScope == Init /\ [][NextScope]_vars

(***************************************************************************)
(* Properties                                                              *)
(***************************************************************************)
\* the deployment in slot r is in phase RUNNING: its RUNNING status is stored
\* (line 105) and its worker has not yet stored a terminal status
IsRunning(r) == pc[r] \in {"cancel", "pre", "exec"}

\* the deployment in slot r is between its lease claim (line 91) and the
\* deferred serviceQueue.Delete (line 120)
HoldsLease(r) == pc[r] \in {"status", "cancel", "pre", "exec", "dLease"}

\* the reply rejects a request because the lease of its service is held
IsConcurrentReject(rp) ==
  \/ rp.op = "RouteDeployment" /\ rp.Err = "concurrent deployment detected"
  \/ rp.op = "Deploy" /\ rp.Message = "deployment failed: concurrent deployment detected"

\* C1: at most one deployment per (cluster, service) key is in phase RUNNING
\* at any instant, because the lease of the key is held from before the
\* RUNNING status is stored until after the terminal status is stored: two
\* deployments between claim and release never share a key, and the key is
\* in serviceQueue all that time.
C1_OneRunningPerService ==
  /\ \A r1, r2 \in Slots :
       (r1 # r2 /\ HoldsLease(r1) /\ HoldsLease(r2))
         => ServiceKey(req[r1]) # ServiceKey(req[r2])
  /\ \A r \in Slots : HoldsLease(r) => MapHas(serviceQueue, ServiceKey(req[r]))
  /\ \A r \in Slots : IsRunning(r) => HoldsLease(r)

\* C1 witness: a deployment is RUNNING on a service and a second request for
\* the same service has just been turned away
C1_Witness ==
  /\ IsConcurrentReject(reply)
  /\ \E r \in Slots :
       IsRunning(r) /\ ServiceKey(req[r]) = ServiceKey(reply.Request)

\* C2: once the status record of a deployment id has phase SUCCESS, FAILED
\* or CANCELLED, no step changes its phase again, also when the same id is
\* submitted again after it terminated.
C2_TerminalIsPermanent ==
  [][\A d \in DOMAIN statuses :
       statuses[d].Status \in TerminalPhases
         => (MapHas(statuses', d) /\ statuses'[d].Status = statuses[d].Status)]_vars

\* C3: a request whose deployment id already has a non-terminal status
\* record is never admitted, whatever service it targets: no step claims a
\* lease and starts an admission for such an id, so the record keeps its
\* phase, message and progress until its own worker changes them.
C3_DuplicateIDRejected ==
  [][\A r \in Slots :
       (pc[r] = "idle" /\ pc'[r] = "status")
         => ~(/\ MapHas(statuses, req'[r].DeploymentID)
              /\ statuses[req'[r].DeploymentID].Status \notin TerminalPhases)]_vars

\* C4: a Deploy for a (cluster, service) whose lease is held is rejected and
\* changes nothing.  No step admits a request whose key is in serviceQueue,
\* and the step that rejects a request as concurrent leaves the statuses,
\* the cancel funcs, the workers and the lease with its holder as they were.
C4_ConcurrentRejectFrame ==
  [][/\ \A r \in Slots :
          (pc[r] = "idle" /\ pc'[r] = "status")
            => ~MapHas(serviceQueue, ServiceKey(req'[r]))
     /\ (reply = NoReply /\ IsConcurrentReject(reply'))
          => /\ MapHas(serviceQueue, ServiceKey(reply'.Request))
             /\ UNCHANGED <<statuses, cancelFuncs, serviceQueue, pc, req,
                            ctxDone, inProgress>>]_vars

\* C4 witness: a request with another deployment id than the lease holder's
\* has been rejected as concurrent
C4_Witness ==
  /\ IsConcurrentReject(reply)
  /\ MapHas(serviceQueue, ServiceKey(reply.Request))
  /\ serviceQueue[ServiceKey(reply.Request)] # reply.Request.DeploymentID

\* the status GetDeploymentStatus returns for id is a terminal one
ObservedTerminal(id) ==
  MapHas(statuses, id) /\ statuses[id].Status \in TerminalPhases

\* C5: once the deployment that holds the lease of a (cluster, service) is
\* observed in a terminal phase, a Deploy for the same (cluster, service)
\* is not rejected as a concurrent deployment: no request is turned away as
\* concurrent while the holder of its lease shows a terminal status.
C5_AdmittedAfterTerminal ==
  IsConcurrentReject(reply)
    => LET key == ServiceKey(reply.Request) IN
       ~(MapHas(serviceQueue, key) /\ ObservedTerminal(serviceQueue[key]))

\* C6: on every exit path of the worker (pre-deploy hook failure, cancelled
\* before execution, strategy error, post-deploy hook failure, success) a
\* terminal status is stored for the deployment id, then the lease of its
\* (cluster, service) is removed, then its cancel func.  A worker leaves
\* its body only into the deferred function and with a terminal status
\* stored; the deferred function removes the key from serviceQueue and the
\* id from cancelFuncs; a slot is idle again only after both.
C6_ExitReleases ==
  [][\A r \in Slots :
       pc'[r] # pc[r] =>
         /\ pc[r] = "pre" => pc'[r] \in {"exec", "dLease"}
         /\ pc[r] = "exec" => pc'[r] = "dLease"
         /\ pc'[r] = "dLease" =>
              /\ pc[r] \in {"pre", "exec"}
              /\ MapHas(statuses', req[r].DeploymentID)
              /\ statuses'[req[r].DeploymentID].Status \in TerminalPhases
         /\ pc'[r] = "dCancel" =>
              /\ pc[r] = "dLease"
              /\ ~MapHas(serviceQueue', ServiceKey(req[r]))
         /\ pc'[r] = "idle" =>
              /\ pc[r] = "dCancel"
              /\ ~MapHas(cancelFuncs', req[r].DeploymentID)
              /\ inProgress' = inProgress - 1]_vars

\* C6 witness: a worker that failed in a registered pre-deploy hook has
\* exited, and no lease and no cancel func is left
C6_Witness ==
  /\ MapHas(statuses, "d1")
  /\ statuses["d1"].Status = "FAILED"
  /\ statuses["d1"].Message
       = "pre-deploy hook failed: pre-deploy hook custom failed: hook error"
  /\ \A r \in Slots : pc[r] = "idle"
  /\ serviceQueue = EmptyMap
  /\ cancelFuncs = EmptyMap

\* C7: a deployment id whose status phase is RUNNING has a cancel func
\* stored in the Router, so that CancelDeployment finds it, whenever the
\* admission of a deployment with that id has completed and its worker has
\* not stored a terminal status; this for every interleaving, including
\* two deployments that share an id on different services.
C7_RunningHasCancelFunc ==
  \A r \in Slots :
    (/\ pc[r] \in {"pre", "exec"}
     /\ MapHas(statuses, req[r].DeploymentID)
     /\ statuses[req[r].DeploymentID].Status = "RUNNING")
      => MapHas(cancelFuncs, req[r].DeploymentID)

\* C8: for every status record, Progress is 100 exactly when Status is
\* SUCCESS, FAILED or CANCELLED, and EndTime is set exactly then.
C8_ProgressAndEndTime ==
  \A d \in DOMAIN statuses :
    /\ statuses[d].Progress = 100 <=> statuses[d].Status \in TerminalPhases
    /\ statuses[d].EndTime # ZeroTime <=> statuses[d].Status \in TerminalPhases

\* C8 witness: the record of a deployment cancelled during its strategy,
\* after the same id was RUNNING
C8_Witness ==
  /\ MapHas(statuses, "d1")
  /\ statuses["d1"].Status = "CANCELLED"
  /\ statuses["d1"].Message = Canceled
  /\ statuses["d1"].Progress = 100
  /\ statuses["d1"].EndTime = Now

\* the reply acknowledges an admitted deployment
IsAck(rp) == rp.op \in {"RouteDeployment", "Deploy"} /\ rp.Success

\* C9: after Deploy has returned success for a deployment id, every later
\* GetDeploymentStatus for that id returns a status record.  The id is in
\* statuses when the ACK is returned, no step removes an id from statuses,
\* and GetDeploymentStatus answers not-found only for an id that is not in
\* statuses.
C9_StatusNeverLost ==
  [][/\ \A d \in DOMAIN statuses : MapHas(statuses', d)
     /\ (reply = NoReply /\ IsAck(reply'))
          => MapHas(statuses', reply'.DeploymentID)
     /\ (reply = NoReply /\ reply'.op = "GetDeploymentStatus"
                         /\ MapHas(statuses, reply'.Request.DeploymentID))
          => /\ reply'.Success
             /\ reply'.Err = ""
             /\ reply'.Status = statuses[reply'.Request.DeploymentID].Status]_vars

\* C9 witness: GetDeploymentStatus returns the record of a deployment whose
\* worker has exited, while another deployment is running
C9_Witness ==
  /\ reply.op = "GetDeploymentStatus"
  /\ reply.Success
  /\ reply.Status \in TerminalPhases
  /\ \A r \in Slots : req[r].DeploymentID # reply.Request.DeploymentID
  /\ \E r \in Slots : IsRunning(r)

\* a required field of rq is empty or its strategy is not registered
IsMalformed(rq) ==
  \/ rq.DeploymentID = ""
  \/ rq.ClusterARN = ""
  \/ rq.ServiceName = ""
  \/ rq.TaskDefinition = ""
  \/ rq.Strategy = ""
  \/ rq.Strategy \notin strategies

\* the reply of RouteDeployment rejects a request as invalid
IsValidationReject(rp) ==
  /\ rp.op = "RouteDeployment"
  /\ ~rp.Success
  /\ rp.Err # ""
  /\ rp.Message = "validation failed: " \o rp.Err

\* C10 as stated: RouteDeployment rejects a request exactly when one of
\* deployment_id, cluster, service, task_definition, strategy is empty or
\* the strategy is not registered.
C10_RejectsExactlyMalformed ==
  reply.op = "RouteDeployment" => (~reply.Success <=> IsMalformed(reply.Request))

\* C10 amended: RouteDeployment rejects a request with a validation failure
\* exactly when one of deployment_id, cluster, service, task_definition,
\* strategy is empty or the strategy is not registered; a well-formed
\* request is rejected only as concurrent, when the lease of its (cluster,
\* service) is held; a rejected request leaves serviceQueue, statuses and
\* cancelFuncs unchanged and starts no worker, and no malformed request is
\* ever admitted.
C10_ValidationReject ==
  [][/\ \A r \in Slots :
          (pc[r] = "idle" /\ pc'[r] = "status") => ~IsMalformed(req'[r])
     /\ (reply = NoReply /\ reply'.op = "RouteDeployment")
          => /\ IsValidationReject(reply') <=> IsMalformed(reply'.Request)
             /\ ~reply'.Success
                  => /\ IsValidationReject(reply') \/ IsConcurrentReject(reply')
                     /\ UNCHANGED <<serviceQueue, statuses, cancelFuncs, pc,
                                    req, ctxDone, inProgress>>
     /\ (reply = NoReply /\ reply'.op = "Deploy" /\ ~reply'.Success)
          => UNCHANGED <<serviceQueue, statuses, cancelFuncs, pc, req,
                         ctxDone, inProgress>>]_vars

\* C10 witness: a request naming an unregistered strategy has been rejected
\* by RouteDeployment while a deployment holds the lease of its service
C10_Witness ==
  /\ IsValidationReject(reply)
  /\ reply.Request.Strategy # ""
  /\ reply.Request.Strategy \notin strategies
  /\ MapHas(serviceQueue, ServiceKey(reply.Request))
  /\ \E r \in Slots : IsRunning(r)

\* the approval record has been decided
IsDecided(a) == a.Status \in {"approved", "rejected"}

\* C12: once the approval record of a deployment id is approved or rejected,
\* no RequestApproval, ApproveDeployment or RejectDeployment call changes
\* its state, approver or reason, and ApproveDeployment and
\* RejectDeployment on a record that is missing or not pending return an
\* error.
C12_DecisionIsPermanent ==
  [][/\ \A d \in DOMAIN approvals :
          IsDecided(approvals[d])
            => (MapHas(approvals', d) /\ approvals'[d] = approvals[d])
     /\ (reply = NoReply /\ reply'.op \in {"ApproveDeployment", "RejectDeployment"})
          => LET d == reply'.Request.DeploymentID IN
             (~MapHas(approvals, d) \/ approvals[d].Status # "pending")
               => (~reply'.Success /\ reply'.Err # "")]_vars

\* the worker in slot r has returned from Execute and stored its terminal
\* status
Returned(r) == pc[r] = "dLease" /\ run[r].pc = "done"

\* the terminal status the worker in slot r stored
Outcome(r) == statuses[req[r].DeploymentID]

\* the request asks for an approval before it runs
RequiresApproval(rq) ==
  "require_approval" \in DOMAIN rq.Config /\ rq.Config["require_approval"] = "true"

IsApproved(id) == MapHas(approvals, id) /\ approvals[id].Status = "approved"

\* C11: a deployment submitted with require_approval = "true" is admitted
\* with phase PENDING_APPROVAL and a pending approval record, its worker
\* issues no executor call before the record is approved, and a
\* RejectDeployment for its id succeeds while it is not approved.
C11_ApprovalGate ==
  /\ \A r \in Slots :
       RequiresApproval(req[r]) =>
         /\ (pc[r] \in {"cancel", "pre"} /\ ~IsApproved(req[r].DeploymentID))
              => /\ statuses[req[r].DeploymentID].Status = "PENDING_APPROVAL"
                 /\ MapHas(approvals, req[r].DeploymentID)
                 /\ approvals[req[r].DeploymentID].Status = "pending"
         /\ run[r].calls # <<>> => IsApproved(req[r].DeploymentID)
  /\ (/\ reply # NoReply
      /\ reply.op = "RejectDeployment"
      /\ \E r \in Slots : /\ RequiresApproval(req[r])
                          /\ req[r].DeploymentID = reply.Request.DeploymentID
                          /\ pc[r] \in {"cancel", "pre", "exec"}
                          /\ ~IsApproved(req[r].DeploymentID))
       => reply.Success

\* C13: when the cancellation of a running deployment has fired before its
\* strategy returns, the terminal status the worker stores is CANCELLED,
\* whatever the strategy.
C13_CancelledEndsCancelled ==
  [][\A r \in Slots :
       (pc[r] = "exec" /\ ctxDone[r] /\ pc'[r] = "dLease")
         => statuses'[req[r].DeploymentID].Status = "CANCELLED"]_vars

\* the prefixes by which the strategies name the phase that failed before
\* they roll back: a canary stage or its health check, the blue/green
\* stabilization, a traffic shift, a batch health check, the final update
PhasePrefixes ==
  {"stage " \o Stage(DefaultStages[i]) \o " failed: " : i \in DOMAIN DefaultStages}
    \cup {"stage " \o Stage(DefaultStages[i]) \o " health check failed: " :
            i \in DOMAIN DefaultStages}
    \cup {"green environment stabilization failed: ", "traffic shift failed: ",
          "batch health check failed: ", "final update failed: "}

\* the errors a failing phase wraps
PhaseCauses ==
  CallResults(TRUE) \cup WaitResults(TRUE)
    \cup {"service did not stabilize: " \o w : w \in WaitResults(TRUE)}
    \cup {"failed to validate service: " \o e : e \in CallResults(TRUE)}

\* the message starts with the name of a phase
NamesPhase(msg) == \E pre \in PhasePrefixes, cause \in PhaseCauses : msg = pre \o cause

\* C14: a deployment whose strategy ran its rollback ends FAILED, with a
\* message that names the phase that failed.
C14_RolledBackEndsFailed ==
  \A r \in Slots :
    (Returned(r) /\ run[r].rolledBack)
      => (Outcome(r).Status = "FAILED" /\ NamesPhase(Outcome(r).Message))

\* the request leaves the rollback enabled: enable_rollback is absent or
\* "true"
RollbackOn(rq) ==
  "enable_rollback" \notin DOMAIN rq.Config \/ rq.Config["enable_rollback"] = "true"

\* the call shifts all traffic back to the old version
IsShiftBack(c) == c.op = "UpdateTraffic" /\ c.new = 0 /\ c.old = 100

\* a call of Execute failed after a traffic shift of Execute had succeeded
FailedAfterShift(calls) ==
  \E k \in DOMAIN calls, f \in DOMAIN calls :
    /\ k < f
    /\ calls[k].op = "UpdateTraffic" /\ calls[k].err = ""
    /\ calls[f].err # ""

\* C15: for canary, blue/green and rolling with the rollback enabled, when
\* a phase after the first traffic shift fails and the deployment ends
\* FAILED, the rollback has issued a traffic shift to 0% new / 100% old,
\* also when the lookup of the previous task definition had failed.
C15_ShiftBackBeforeFailed ==
  \A r \in Slots :
    (/\ Returned(r)
     /\ req[r].Strategy \in {"canary", "bluegreen", "rolling"}
     /\ RollbackOn(req[r])
     /\ Outcome(r).Status = "FAILED"
     /\ FailedAfterShift(run[r].calls))
      => \E j \in DOMAIN run[r].undo : IsShiftBack(run[r].undo[j])

\* the executor calls whose failure is the failure of a phase: task-set
\* creation, a health check or stabilization, a traffic shift, the final
\* service update
PhaseOps ==
  {"CreateTaskSet", "WaitForServiceStable", "DescribeService", "UpdateTraffic",
   "UpdateService"}

\* the last call Execute issued
LastCall(rn) == rn.calls[Len(rn.calls)]

\* Execute returned because its last call, the call of a phase, failed
PhaseFailed(r) ==
  /\ Returned(r)
  /\ run[r].calls # <<>>
  /\ LastCall(run[r]).op \in PhaseOps
  /\ LastCall(run[r]).err # ""
  /\ Outcome(r).Status = "FAILED"

\* the message is the error e, as returned or wrapped with the name of the
\* phase
CarriesError(msg, e) ==
  \E pre \in PhasePrefixes \cup {"", "failed to create green task set: "},
     mid \in {"", "service did not stabilize: ", "failed to validate service: "} :
    msg = pre \o mid \o e

\* C16: for canary, blue/green and rolling with the rollback enabled, a
\* failing phase (task-set creation, stage or stabilization health check,
\* traffic shift, batch validation, final service update) makes the
\* strategy run its rollback before it returns, and the error it returns
\* is the error of that phase.
C16_PhaseErrorRollsBack ==
  \A r \in Slots :
    (/\ PhaseFailed(r)
     /\ req[r].Strategy \in {"canary", "bluegreen", "rolling"}
     /\ RollbackOn(req[r]))
      => /\ run[r].rolledBack
         /\ CarriesError(Outcome(r).Message, LastCall(run[r]).err)

\* the request switches the rollback off: enable_rollback is "false"
RollbackOff(rq) ==
  "enable_rollback" \in DOMAIN rq.Config /\ rq.Config["enable_rollback"] = "false"

\* C17: the rollback is suppressed exactly when enable_rollback is "false":
\* with "false" no strategy runs its rollback or issues a rollback call on
\* failure or cancellation; with the key absent or holding any other value
\* a failing phase rolls back.
C17_RollbackOffExactlyFalse ==
  \A r \in Slots :
    Returned(r) =>
      /\ RollbackOff(req[r]) => (~run[r].rolledBack /\ run[r].undo = <<>>)
      /\ (~RollbackOff(req[r]) /\ PhaseFailed(r) /\ req[r].Strategy = "canary")
           => run[r].rolledBack

\* the call changes where the traffic goes: a traffic shift or a service
\* update
IsRouting(c) == c.op \in {"UpdateTraffic", "UpdateService"}

\* the call routes everything to the new version of the request
RoutesToNew(c, rq) ==
  \/ c.op = "UpdateService" /\ c.arg = rq.TaskDefinition
  \/ c.op = "UpdateTraffic" /\ c.new = 100 /\ c.old = 0

\* C18: when a strategy run ends in SUCCESS, the last traffic shift or
\* service update it issued routes everything to the new version:
\* UpdateService(new task definition) or UpdateTraffic(100% new, 0% old).
C18_SuccessRoutesToNew ==
  \A r \in Slots :
    (Returned(r) /\ Outcome(r).Status = "SUCCESS")
      => \E k \in DOMAIN run[r].calls :
           /\ IsRouting(run[r].calls[k])
           /\ \A j \in DOMAIN run[r].calls : j > k => ~IsRouting(run[r].calls[j])
           /\ RoutesToNew(run[r].calls[k], req[r])

\* C19: after all canary stages passed, the final traffic shift gives 100%
\* to the new version and 0% to the old one: its weights are the weights of
\* the rollback shift exchanged.
C19_FinalShiftToNew ==
  \A r \in Slots :
    (pc[r] = "exec" /\ req[r].Strategy = "canary" /\ run[r].pc = "cleanup")
      => /\ LastCall(run[r]).op = "UpdateTraffic"
         /\ LastCall(run[r]).new = 100
         /\ LastCall(run[r]).old = 0
         /\ \A x \in CanaryRollbackRuns(run[r], FALSE) :
              /\ x.undo[1].new = LastCall(run[r]).old
              /\ x.undo[1].old = LastCall(run[r]).new

\* C20: in canary and blue/green, when the final deletion of the old task
\* set fails, the strategy returns nil and the deployment ends SUCCESS.
C20_CleanupFailureIsSuccess ==
  \A r \in Slots :
    (/\ Returned(r)
     /\ req[r].Strategy \in {"canary", "bluegreen"}
     /\ run[r].calls # <<>>
     /\ LastCall(run[r]).op = "DeleteTaskSet"
     /\ LastCall(run[r]).arg = "PRIMARY"
     /\ LastCall(run[r]).err # "")
      => Outcome(r).Status = "SUCCESS"

\* the executor calls that change the service
MutationOps ==
  {"RegisterTaskDefinition", "UpdateService", "CreateTaskSet", "DeleteTaskSet",
   "UpdateTraffic"}

\* the mutations among the calls, in order, without their results
Mutations(calls) ==
  LET muts == SelectSeq(calls, LAMBDA c : c.op \in MutationOps)
  IN [k \in DOMAIN muts |-> [muts[k] EXCEPT !.err = ""]]

\* C21: canary and blue/green only read the previous task definition in
\* their snapshot phase: no mutation is issued before
\* RegisterTaskDefinition, and the mutations of a successful blue/green run
\* are register, CreateTaskSet(weight 100), UpdateTraffic(100, 0),
\* DeleteTaskSet(PRIMARY).
C21_SnapshotOnlyReads ==
  \A r \in Slots :
    req[r].Strategy \in {"canary", "bluegreen"} =>
      /\ \A k \in DOMAIN run[r].calls :
           run[r].calls[k].op \in MutationOps
             => \E j \in 1..k : run[r].calls[j].op = "RegisterTaskDefinition"
      /\ (Returned(r) /\ req[r].Strategy = "bluegreen" /\ Outcome(r).Status = "SUCCESS")
           => Mutations(run[r].calls)
                = <<RegisterTaskDefinitionCall(req[r].TaskDefinition),
                    CreateTaskSetCall(req[r].TaskDefinition, 100),
                    UpdateTrafficCall(100, 0),
                    DeleteTaskSetCall("PRIMARY")>>

\* the traffic shifts Execute issued, in order
Shifts(calls) == SelectSeq(calls, LAMBDA c : c.op = "UpdateTraffic")

\* the config key batch_size as RollingStrategy reads it
BatchSizeOf(rq) == parseBatchSize(rq.Config)

\* ceil(100 / n)
CeilDiv100(n) == (100 + n - 1) \div n

\* C22: rolling runs ceil(100 / batch_size) batches, batch k shifting
\* min(k * batch_size, 100) percent to the new version, so the last shift
\* before the final UpdateService is 100% new / 0% old.
C22_LastBatchIsFull ==
  \A r \in Slots :
    (pc[r] = "exec" /\ req[r].Strategy = "rolling" /\ run[r].pc = "final")
      => LET shifts == Shifts(run[r].calls) IN
         /\ Len(shifts) = CeilDiv100(BatchSizeOf(req[r]))
         /\ \A k \in DOMAIN shifts :
              /\ shifts[k].new = CurrentWeight(k, BatchSizeOf(req[r]))
              /\ shifts[k].old = 100 - shifts[k].new
         /\ shifts[Len(shifts)].new = 100
         /\ shifts[Len(shifts)].old = 0

\* the call is a RegisterTaskDefinition that failed, not because the
\* context was cancelled between two attempts
IsFailedRegister(c) ==
  c.op = "RegisterTaskDefinition" /\ c.err # "" /\ c.err # Canceled

\* the message is the error e as the strategies return a register error
CarriesRegisterError(msg, e) ==
  msg \in {e, "failed to register green task definition: " \o e,
           "failed to register task definition: " \o e}

\* C27: in every strategy, when RegisterTaskDefinition fails the strategy
\* returns that error and issues no further executor call, rollback calls
\* included, and the deployment ends FAILED.
C27_RegisterFailureEnds ==
  \A r \in Slots : \A k \in DOMAIN run[r].calls :
    IsFailedRegister(run[r].calls[k])
      => /\ k = Len(run[r].calls)
         /\ run[r].pc = "done"
         /\ ~run[r].rolledBack
         /\ run[r].undo = <<>>
         /\ Outcome(r).Status = "FAILED"
         /\ CarriesRegisterError(Outcome(r).Message, run[r].calls[k].err)

\* a canary run whose register used up its attempts has ended FAILED
C27_Witness ==
  \E r \in Slots :
    /\ Returned(r)
    /\ req[r].Strategy = "canary"
    /\ LastCall(run[r]).op = "RegisterTaskDefinition"
    /\ LastCall(run[r]).err = "max retry attempts reached: " \o AWSError
    /\ Outcome(r).Status = "FAILED"

\* C28: a Deploy submitted while the lease of its (cluster, service) is held
\* is answered with success = false and the message "deployment already in
\* progress for this service", as a normal response: the handler returns no
\* error.
C28_ConcurrentDeployMessage ==
  [][(/\ reply = NoReply
      /\ reply'.op = "Deploy"
      /\ MapHas(serviceQueue, ServiceKey(reply'.Request)))
       => /\ ~reply'.Success
          /\ reply'.Message = "deployment already in progress for this service"
          /\ reply'.Err = ""]_vars

\* the results a caller has computed agree with the map while the caller
\* still holds the lock
ResultsAgree(c) ==
  LET call == registry.calls[c]
      has == MapHas(registry.strategies, call.name)
  IN
  call.pc = "unlock" =>
    CASE call.op = "Register" ->
           IF call.err # "" THEN has ELSE has /\ registry.strategies[call.name] = call.s
      [] call.op = "Get" ->
           /\ call.ok = has
           /\ call.ok => call.got = registry.strategies[call.name]
      [] call.op = "List" -> call.names = DOMAIN registry.strategies
      [] OTHER -> ~has

\* a step replaces no mapping: a name stays mapped to the strategy it was
\* registered with until it is unregistered
KeepsMappings ==
  \A n \in DOMAIN registry.strategies \cap DOMAIN registry'.strategies :
    registry'.strategies[n] = registry.strategies[n]

\* C30: in every interleaving of Register, Get, List and Unregister calls, a
\* Register of a name that is present returns an error and replaces nothing,
\* a Register of a name that is absent succeeds (so also after an Unregister),
\* Get finds a name exactly when it is registered and returns its strategy,
\* List returns exactly the registered names, and Unregister leaves the name
\* absent; each result holds of the map for as long as the caller holds the
\* lock.
C30_RegistryCallsAreAtomic ==
  /\ [](\A c \in Callers : ResultsAgree(c))
  /\ [][KeepsMappings]_vars

\* a Register of a name registered with another strategy has been refused
\* while an Unregister of the name waits for the lock
C30_Witness ==
  \E c, d \in Callers :
    LET call == registry.calls[c] IN
    /\ call.pc = "unlock"
    /\ call.op = "Register"
    /\ call.err = "strategy custom already registered"
    /\ registry.strategies[call.name] # call.s
    /\ registry.calls[d].pc = "lock"
    /\ registry.calls[d].op = "Unregister"
    /\ registry.calls[d].name = call.name

\* C29: a Deploy is admitted exactly when the strategy it names is in the
\* Registry at that moment.
C29_RegistryDecidesAdmission ==
  [][\A rq \in RegistryRequests :
       Deploy(rq) =>
         ((\E r \in Slots : pc[r] = "idle" /\ pc'[r] = "status")
            <=> MapHas(registry.strategies, rq.Strategy))]_vars

\* ExponentialBackoff has returned
RetryReturned == retry.pc = "done"

\* the error returned is the error e, as it is or wrapped with %w
ReturnsError(e) ==
  \/ retry.err = e
  \/ retry.err = Wrap("max retry attempts reached: ", e)
  \/ retry.err = Wrap("cannot retry: delay would exceed context deadline: ", e)

\* C23: a call of ExponentialBackoff that has returned has invoked fn at
\* least once and at most MaxAttempts times, and unless it returned the
\* cancellation error it returned the result of the last invocation: nil
\* when that succeeded, its error otherwise.
C23_InvocationsAndResult ==
  RetryReturned =>
    /\ retry.calls >= 1
    /\ retry.calls <= retry.config.MaxAttempts
    /\ retry.err # Canceled =>
         IF retry.last = "" THEN retry.err = "" ELSE ReturnsError(retry.last)

\* the message carries one of the transient signatures
HasSignature(msg) == \E retryable \in retryableErrors : containsSubstring(msg, retryable)

\* C24: an error fn has returned is classified retryable exactly when its
\* message contains a transient signature, and an error without a signature
\* ends the call with that error.
C24_RetryableIffSignature ==
  (retry.calls > 0 /\ retry.last # "") =>
    /\ IsRetryable(retry.last) <=> HasSignature(retry.last)
    /\ ~HasSignature(retry.last) => RetryReturned /\ retry.err = retry.last

\* min(base * 2^(i-1), max), i >= 1
BackoffDelay(base, i, max) ==
  LET d == Doubled(base, i - 1, max) IN IF d > max THEN max ELSE d

RECURSIVE Sum(_)
Sum(seq) == IF seq = <<>> THEN 0 ELSE Head(seq) + Sum(Tail(seq))

\* above every sum of waits the configurations allow
SumCap == MaxAttemptsBound * 32

\* C25: the i-th wait of a call is min(BaseDelay * 2^(i-1), MaxDelay), the
\* waits of the default configuration are 1s and 2s, and the waits of a call
\* add up to at most BaseDelay * (2^MaxAttempts - 1).
C25_WaitsAreCappedPowers ==
  LET config == retry.config IN
  /\ \A i \in 1..Len(retry.waits) :
       retry.waits[i] = BackoffDelay(config.BaseDelay, i, config.MaxDelay)
  /\ (config = DefaultRetryConfig /\ Len(retry.waits) = 2) => retry.waits = <<1, 2>>
  /\ Sum(retry.waits)
       <= Doubled(config.BaseDelay, config.MaxAttempts, SumCap) - config.BaseDelay

\* C26: at the head of the loop before a retry, with a deadline on the
\* context, the call goes on to wait only for a delay that ends before the
\* deadline, and otherwise returns the last error of fn (wrapped) without
\* another invocation; a call whose context is cancelled while it waits
\* returns the cancellation error without another invocation.
C26_DeadlineAndCancelStopRetries ==
  [][/\ (/\ retry.pc = "top"
         /\ retry.attempt > 0
         /\ retry.attempt < retry.config.MaxAttempts
         /\ HasDeadline)
          => /\ retry'.pc = "wait" => retry'.delay < TimeUntilDeadline
             /\ retry'.pc = "done" =>
                  /\ retry'.err = "cannot retry: delay would exceed context deadline: "
                                    \o retry.last
                  /\ retry'.calls = retry.calls
     /\ (retry.pc = "wait" /\ retry.done /\ retry.delay > 0)
          => /\ retry'.pc = "done"
             /\ retry'.err = Canceled
             /\ retry'.calls = retry.calls]_vars

\* a call returned before its second invocation because the first delay is
\* exactly the time left to the deadline
C26_Witness ==
  /\ RetryReturned
  /\ retry.attempt = 1
  /\ retry.calls = 1
  /\ retry.deadline - retry.now = retry.config.BaseDelay
  /\ retry.err = "cannot retry: delay would exceed context deadline: Throttling"

\* C31: the request of an admitted deployment does not change while the
\* deployment holds its slot: no step adds, removes or changes an entry of
\* its config map or changes another field.
C31_RequestIsImmutable ==
  [][\A r \in Slots :
       (pc[r] # "idle" /\ pc'[r] # "idle") => req'[r] = req[r]]_vars

\* C35: a worker that finds its context done at the check after the
\* pre-deploy hooks stores CANCELLED with progress 100 and goes to its
\* deferred function: the strategy is not invoked and no executor call is
\* issued.
C35_CancelledBeforeExecution ==
  [][\A r \in Slots :
       (pc[r] = "pre" /\ ctxDone[r] /\ pc'[r] # "pre")
         => /\ pc'[r] = "dLease"
            /\ run'[r] = NoRun
            /\ statuses'[req[r].DeploymentID].Status = "CANCELLED"
            /\ statuses'[req[r].DeploymentID].Progress = 100
            /\ statuses'[req[r].DeploymentID].Message
                 = "deployment cancelled before execution"]_vars

\* a cancelled deployment has ended before its strategy was invoked
C35_Witness ==
  \E r \in Slots :
    /\ pc[r] = "dLease"
    /\ ctxDone[r]
    /\ run[r] = NoRun
    /\ req[r].Strategy = "canary"
    /\ Outcome(r).Status = "CANCELLED"
    /\ Outcome(r).Message = "deployment cancelled before execution"

C39_RollbackIgnoresLease ==
  /\ [](reply = NoReply =>
          \A rq \in ValidRequests :
            ENABLED RouterRollback(rq.DeploymentID, rq.ClusterARN, rq.ServiceName))
  /\ [][(reply = NoReply /\ reply'.op = "Rollback")
          => /\ UNCHANGED <<statuses, serviceQueue, cancelFuncs, pc, req, ctxDone>>
             /\ LET calls == executor'.calls IN
                /\ Len(calls) >= 1
                /\ calls[1].op = "GetPreviousTaskDefinition"
                /\ IF calls[1].err # ""
                     THEN /\ Len(calls) = 1
                          /\ reply'.Err = "rollback failed: " \o calls[1].err
                     ELSE /\ Len(calls) = 2
                          /\ calls[2].op = "UpdateService"
                          /\ calls[2].arg = PrevTaskDef
                          /\ reply'.Err = calls[2].err]_vars

\* a rollback has updated the service to the previous task definition while
\* the strategy of a deployment is running on that service
C39_Witness ==
  /\ reply.op = "Rollback"
  /\ reply.Success
  /\ Len(executor.calls) = 2
  /\ executor.calls[2].op = "UpdateService"
  /\ \E r \in Slots :
       /\ pc[r] = "exec"
       /\ ServiceKey(req[r]) = ServiceKey(reply.Request)
       /\ MapHas(serviceQueue, ServiceKey(req[r]))
       /\ statuses[req[r].DeploymentID].Status = "RUNNING"

\* the status record of id does not allow a cancellation
NotCancellable(id) == ~MapHas(statuses, id) \/ statuses[id].Status # "RUNNING"

\* C40: CancelDeployment(id) on an id without status record or with a phase
\* other than RUNNING returns an error and fires nothing; no step of
\* CancelDeployment changes a status record; a failing one fires nothing and
\* a successful one fires exactly the handle stored under id; a record
\* leaves RUNNING only in a step of a worker of that id.
C40_CancelOnlyFiresHandle ==
  /\ [][\A id \in DeploymentIDs :
          CancelLoadStatus(id) =>
            /\ UNCHANGED <<statuses, ctxDone>>
            /\ IF NotCancellable(id)
                 THEN /\ cancelCall' = ""
                      /\ reply'.op = "CancelDeployment"
                      /\ ~reply'.Success
                      /\ reply'.Err # ""
                 ELSE cancelCall' = id /\ reply' = NoReply]_vars
  /\ [][CancelFire =>
          /\ UNCHANGED statuses
          /\ reply'.op = "CancelDeployment"
          /\ IF reply'.Success
               THEN /\ MapHas(cancelFuncs, cancelCall)
                    /\ ctxDone'[cancelFuncs[cancelCall]]
                    /\ \A r \in Slots :
                         r # cancelFuncs[cancelCall] => ctxDone'[r] = ctxDone[r]
               ELSE reply'.Err # "" /\ UNCHANGED ctxDone]_vars
  /\ [][\A id \in DeploymentIDs :
          (~NotCancellable(id) /\ statuses'[id].Status # "RUNNING")
            => \E r \in Slots : /\ req[r].DeploymentID = id
                                /\ pc[r] \in {"pre", "exec"}
                                /\ pc'[r] = "dLease"]_vars

\* a cancellation has succeeded and fired the handle of a deployment whose
\* record is still RUNNING, its worker being inside the strategy
C40_Witness ==
  /\ reply.op = "CancelDeployment"
  /\ reply.Success
  /\ \E r \in Slots :
       /\ pc[r] = "exec"
       /\ req[r].DeploymentID = reply.Request.DeploymentID
       /\ cancelFuncs[req[r].DeploymentID] = r
       /\ ctxDone[r]
       /\ statuses[req[r].DeploymentID].Status = "RUNNING"

\* the weights of the create_task_set calls of a run, in order
RECURSIVE TaskSetWeights(_)
TaskSetWeights(calls) ==
  IF calls = <<>> THEN <<>>
  ELSE IF Head(calls).op = "CreateTaskSet"
    THEN <<Head(calls).new>> \o TaskSetWeights(Tail(calls))
  ELSE TaskSetWeights(Tail(calls))

\* a stage list as the specification wants it: numbers only, each in 0..100,
\* non-decreasing
WellFormedStages(str) ==
  LET parts == SplitTrim(str) IN
  /\ \A i \in 1..Len(parts) : AtoiOK(parts[i]) /\ Atoi(parts[i]) \in 0..100
  /\ \A i \in 1..(Len(parts) - 1) : Atoi(parts[i]) <= Atoi(parts[i + 1])

IsPrefix(a, b) == Len(a) <= Len(b) /\ a = SubSeq(b, 1, Len(a))

\* C36: whatever canary_stages and canary_percent hold, the weights of the
\* create_task_set calls of a canary run are integers in 0..100 and
\* non-decreasing, and with a malformed or out-of-range stage list they are
\* the default stages 20, 50, 100.
C36_StageWeights ==
  \A r \in Slots :
    (pc[r] # "idle" /\ req[r].Strategy = "canary") =>
      LET ws == TaskSetWeights(run[r].calls) IN
      /\ \A i \in 1..Len(ws) : ws[i] \in 0..100
      /\ \A i \in 1..(Len(ws) - 1) : ws[i] <= ws[i + 1]
      /\ ("canary_stages" \in DOMAIN req[r].Config
            /\ ~WellFormedStages(req[r].Config["canary_stages"]))
           => IsPrefix(ws, DefaultStages)

\* the stability condition of the specification: a single deployment that
\* is PRIMARY with rollout state COMPLETED, running equal to desired for the
\* deployment and for the service
StableService(svc) ==
  /\ svc.err = ""
  /\ Len(svc.deployments) = 1
  /\ svc.deployments[1].Status = "PRIMARY"
  /\ svc.deployments[1].RolloutState = "COMPLETED"
  /\ svc.deployments[1].RunningCount = svc.deployments[1].DesiredCount
  /\ svc.RunningCount = svc.DesiredCount

\* C33: WaitForServiceStable returns nil only in the step in which a poll
\* before the deadline got a stable describe_service result; a poll that
\* got an error or an unstable result leaves it waiting for the next tick;
\* a tick at or after the deadline returns the timeout error; a call
\* blocked in the select whose context ends returns the context's error
\* without another poll.
C33_StableOrError ==
  /\ [](executor.wait.pc = "returned" /\ executor.wait.err = ""
          => StableService(executor.wait.svc))
  /\ [][WaitTick =>
          IF executor.wait.now >= executor.wait.timeout
            THEN /\ executor'.wait.pc = "returned"
                 /\ executor'.wait.err = "service stabilization timeout after "
                                           \o DurationString(executor.wait.timeout)
                 /\ executor'.wait.svc = executor.wait.svc
            ELSE /\ executor'.wait.svc \in DescribeResults
                 /\ executor'.wait.err = ""
                 /\ executor'.wait.pc = IF StableService(executor'.wait.svc)
                                          THEN "returned" ELSE "select"]_vars
  /\ [][(executor.wait.pc = "select" /\ executor.wait.ctxErr # ""
           /\ ~executor.wait.ticked /\ executor'.wait # executor.wait)
          => /\ executor'.wait.pc = "returned"
             /\ executor'.wait.err = executor.wait.ctxErr
             /\ executor'.wait.svc = executor.wait.svc]_vars
  /\ [](executor.wait.pc = "select" /\ executor.wait.ctxErr # "" => ENABLED WaitDone)

\* the call has returned nil on the stable result of a poll at the second
\* tick or later
C33_Witness ==
  /\ executor.wait.pc = "returned"
  /\ executor.wait.err = ""
  /\ executor.wait.now >= 2 * TickPeriod
  /\ StableService(executor.wait.svc)

\* the call has returned its timeout error after polls that never were stable
C33_WitnessTimeout ==
  /\ executor.wait.pc = "returned"
  /\ executor.wait.err = "service stabilization timeout after 2m0s"
  /\ executor.wait.svc.err = ""
  /\ ~StableService(executor.wait.svc)

\* C37: a rolling deployment submitted without config entries passes its
\* snapshot phase and goes on to register the task definition; its worker
\* does not crash.
C37_RollingWithoutConfig ==
  \A r \in Slots :
    (pc[r] # "idle" /\ req[r].Strategy = "rolling" /\ req[r].Config = NoConfig)
      => run[r].pc # "panic"

\* the hook calls hs went through the first hooks of the list in order, and
\* none but the last failed
RanInOrder(hs, hooks) ==
  /\ Len(hs) <= Len(hooks)
  /\ \A i \in 1..Len(hs) : hs[i].name = hooks[i]
  /\ \A i \in 1..(Len(hs) - 1) : hs[i].err = ""

Failed(hs) == hs # <<>> /\ hs[Len(hs)].err # ""

RanAll(hs, hooks) == RanInOrder(hs, hooks) /\ Len(hs) = Len(hooks) /\ ~Failed(hs)

\* C34: the worker calls the pre-deploy hooks in registration order and no
\* hook after one that failed; after a failed pre-deploy hook the strategy
\* is not started, no executor call is issued and the record becomes FAILED;
\* the strategy only starts after every pre-deploy hook succeeded, the
\* post-deploy hooks only after the strategy returned nil; the record is
\* SUCCESS only then and only after every post-deploy hook succeeded.
C34_HooksGuardTheStrategy ==
  \A r \in Slots :
    pc[r] \in {"pre", "exec", "post", "dLease", "dCancel"} =>
      LET pre == HookCalls(r, "pre-deploy")
          post == HookCalls(r, "post-deploy")
          started == run[r].pc # "start" \/ run[r].calls # <<>> \/ pc[r] \in {"exec", "post"}
      IN
      /\ run[r].hooks = pre \o post
      /\ RanInOrder(pre, preDeployHooks)
      /\ RanInOrder(post, postDeployHooks)
      /\ Failed(pre) => /\ ~started
                        /\ run[r].undo = <<>>
                        /\ post = <<>>
                        /\ pc[r] \in {"dLease", "dCancel"}
                        /\ (pc[r] = "dLease" => Outcome(r).Status = "FAILED")
      /\ started => RanAll(pre, preDeployHooks)
      /\ post # <<>> => run[r].pc = "done" /\ run[r].err = ""
      /\ (pc[r] = "dLease" /\ Outcome(r).Status = "SUCCESS")
           => /\ run[r].pc = "done"
              /\ run[r].err = ""
              /\ RanAll(pre, preDeployHooks)
              /\ RanAll(post, postDeployHooks)
      /\ (pc[r] = "dLease" /\ Failed(post)) => Outcome(r).Status = "FAILED"

\* the second of three pre-deploy hooks failed: the third one was not
\* called, the strategy did not start, the record is FAILED
C34_Witness ==
  \E r \in Slots :
    /\ pc[r] = "dLease"
    /\ Len(preDeployHooks) = 3
    /\ Len(run[r].hooks) = 2
    /\ run[r].hooks[2].err # ""
    /\ run[r].calls = <<>>
    /\ Outcome(r).Status = "FAILED"

\* a deployment ended SUCCESS after a registered post-deploy hook
C34_WitnessSuccess ==
  \E r \in Slots :
    /\ pc[r] = "dLease"
    /\ Outcome(r).Status = "SUCCESS"
    /\ Len(postDeployHooks) = 3
    /\ Len(HookCalls(r, "post-deploy")) = 3

\* C32: every deployment whose RUNNING record is stored gets a terminal
\* record in the end.
C32_AdmittedReachTerminal ==
  \A id \in DeploymentIDs :
    (MapHas(statuses, id) /\ statuses[id].Status = "RUNNING")
      ~> (MapHas(statuses, id) /\ statuses[id].Status \in TerminalPhases)

====
